---- MODULE Spec2Model ----
(***************************************************************************)
(* adcm_client/objects.py.                                                 *)
(*                                                                         *)
(*   Spec          the Task/Job wait state machine with the diagnostic     *)
(*                 dump of job logs (Task.wait, Task.try_wait,             *)
(*                 Task._log_jobs, Job.wait)                               *)
(*   SpecGate      the version-gated operations of Cluster and Service     *)
(*   SpecGuard     the operations with a minimum server version            *)
(*   SpecRun       Action.run                                              *)
(*   SpecConfig    _BaseObject.config_set_diff against a server that       *)
(*                 other clients write to                                  *)
(*   SpecResource  the attribute cache of a Resource and the lookup by     *)
(*                 filters                                                 *)
(*   SpecBundle    the methods of Bundle that go through a prototype       *)
(*   SpecClient    the construction of an ADCMClient: auth, guess_adcm_url *)
(*                 and the minimum version check                           *)
(*                                                                         *)
(* The specifications share the variables; each Init leaves the variables  *)
(* of the others at their empty values.  Time is counted in polling        *)
(* intervals.  Requests to the server are steps whose result (a value or   *)
(* an error) is chosen by the environment.                                 *)
(***************************************************************************)
EXTENDS Integers, Sequences, FiniteSets, TLC

\* ---------------------------------------------------------------- bounds
\* longest timeout of a wait, in polling intervals
MaxTimeout == 2
\* most jobs a task owns
MaxJobs == 2
\* most log files the jobs of a task list in all
MaxLogs == 3
\* most gated calls recorded in one behaviour of the version-gate specification
MaxCalls == 2

\* ------------------------------------------------------- version strings
\* A version string "2020.09.25.13" is the sequence of its dot-separated
\* components, each component the sequence of its decimal digits.
V_2020_05_12_23 == << <<2,0,2,0>>, <<0,5>>, <<1,2>>, <<2,3>> >>
V_2020_05_13_00 == << <<2,0,2,0>>, <<0,5>>, <<1,3>>, <<0,0>> >>
\* a release written without leading zeros: older than 2020.05.13.00 as
\* numbers, later than it as text
V_2020_5_9_0 == << <<2,0,2,0>>, <<5>>, <<9>>, <<0>> >>
V_2020_08_26_23 == << <<2,0,2,0>>, <<0,8>>, <<2,6>>, <<2,3>> >>
V_2020_08_27_00 == << <<2,0,2,0>>, <<0,8>>, <<2,7>>, <<0,0>> >>
V_2020_09_25_12 == << <<2,0,2,0>>, <<0,9>>, <<2,5>>, <<1,2>> >>
V_2020_09_25_13 == << <<2,0,2,0>>, <<0,9>>, <<2,5>>, <<1,3>> >>
\* a release written without leading zeros: older than 2020.09.25.13 as
\* numbers, later than it as text
V_2020_9_1_0 == << <<2,0,2,0>>, <<9>>, <<1>>, <<0>> >>
V_2020_10_01_00 == << <<2,0,2,0>>, <<1,0>>, <<0,1>>, <<0,0>> >>
V_2021_03_12_15 == << <<2,0,2,1>>, <<0,3>>, <<1,2>>, <<1,5>> >>
V_2021_03_12_16 == << <<2,0,2,1>>, <<0,3>>, <<1,2>>, <<1,6>> >>
V_2021_03_12_9 == << <<2,0,2,1>>, <<0,3>>, <<1,2>>, <<9>> >>

\* the decimal value of a digit sequence ("09" and "9" are both 9)
RECURSIVE DigitsValue(_)
DigitsValue(ds) ==
    IF ds = << >> THEN 0
    ELSE 10 * DigitsValue(SubSeq(ds, 1, Len(ds) - 1)) + ds[Len(ds)]

\* rpm.compare_versions(a, b): -1, 0 or 1; the components are compared as
\* numbers from the left, and of two versions one of which is a prefix of
\* the other the longer is the newer.
RECURSIVE compare_versions(_, _)
compare_versions(a, b) ==
    IF a = << >> /\ b = << >> THEN 0
    ELSE IF a = << >> THEN -1
    ELSE IF b = << >> THEN 1
    ELSE IF DigitsValue(Head(a)) < DigitsValue(Head(b)) THEN -1
    ELSE IF DigitsValue(Head(a)) > DigitsValue(Head(b)) THEN 1
    ELSE compare_versions(Tail(a), Tail(b))

\* ------------------------------------------------------------- statuses
\* the statuses the server gives a task or a job
Statuses == {"created", "running", "success", "failed", "aborted"}
\* the statuses from which the server makes no further transition
TerminalStatuses == {"success", "failed", "aborted"}

\* Task._END_STATUSES
Task_END_STATUSES == {"failed", "success"}
\* Job._END_STATUSES
Job_END_STATUSES == {"failed", "success"}

\* the server's transitions of a status: Pending -> Running -> terminal
ServerNext(s) ==
    CASE s = "created" -> {"running", "aborted"}
      [] s = "running" -> {"success", "failed", "aborted"}
      [] OTHER -> {}

\* ------------------------------------------------------------- outcomes
Return(v) == [kind |-> "return", value |-> v, code |-> "-"]
Raise(e) == [kind |-> "raise", value |-> e, code |-> "-"]
\* coreapi's ErrorMessage carrying the server's error code
ErrorMessage(c) == [kind |-> "raise", value |-> "ErrorMessage", code |-> c]
NoOutcome == [kind |-> "none", value |-> "-", code |-> "-"]

\* the error codes of a failed request
ErrorCodes == {"LOG_NOT_FOUND", "SERVER_ERROR"}


\* ------------------------------------------------------------ documents
\* A value of a request or a response: a scalar or a dict. A dict holds its
\* entries as <<key, value>> pairs with a value for every key it has.
Scalar(x) == [kind |-> "scalar", s |-> x, sub |-> {}]
Dict(entries) == [kind |-> "dict", s |-> "-", sub |-> entries]
None == Scalar("None")
\* isinstance(v, abc.Mapping)
IsMapping(v) == v.kind = "dict"
Keys(d) == {e[1] : e \in d.sub}
\* key in d
Has(d, k) == IsMapping(d) /\ k \in Keys(d)
\* d[key]
Get(d, k) == (CHOOSE e \in d.sub : e[1] = k)[2]
\* d[key] = value
Put(d, k, v) == Dict({e \in d.sub : e[1] # k} \cup {<<k, v>>})
\* d.pop(key)
Pop(d, k) == Dict({e \in d.sub : e[1] # k})

\* the values of the variables of an operation that was not called
NoEntry == [config |-> None, attr |-> None]
NoFrame == [pc |-> "-"]
NoAction == [config |-> None]
NoRecords == << >>
NoCache == [loaded |-> FALSE]
NoBundle == [prototypes |-> {}]
NoClient == [pc |-> "-"]

\* ---------------------------------------------------------------- state
VARIABLES
    adcm_version,   \* the version the server advertises (api.adcm_version)
    object_type,    \* Task.object_type: the kind of object the task ran on
    status,         \* the status of the polled Task or Job on the server
    op,             \* the running call: "wait", "try_wait", "job_wait" or "-"
    log_failed,     \* wait's argument log_failed
    pc,             \* "idle", "poll", "list", "name", "file" or "done"
    timeout,        \* wait_for_attr's timeout, in polling intervals
    elapsed,        \* polling intervals wait_for_attr has slept so far
    lastRead,       \* the status the last poll of the running call read
    requests,       \* the kinds of request the running call has sent
    errors,         \* <<request, error, code>>: the errors its requests raised
    filters,        \* the filters _log_jobs was called with
    after,          \* what wait does once _log_jobs returns
    jobs,           \* the Task's jobs on the server: [status, nfiles]
    queue,          \* the jobs job_list(**filters) returned, as indices of jobs
    qi,             \* the position of _log_jobs in queue
    fi,             \* the position of _log_jobs in the job's log_files
    fetched,        \* <<job, file>>: the log files requested
    answers,        \* <<job, file, answer>>: "ok" or the error code of each request
    emitted,        \* <<job, file, level>>: the lines logged (file 0: the action name)
    failedAt,       \* <<job, file>> of the log request that raised, or << >>
    dumpEnd,        \* "none", "running", "complete" or "error"
    waitOutcome,    \* how Task.wait / Job.wait ended
    outcome,        \* how the call ended
    calls,          \* the calls made and how each ended
    remote,         \* the server's current config entry of an object: [config, attr]
    csd,            \* the running config_set_diff call
    action,         \* the cached fields of an Action: [config]
    records,        \* the server's records of one entity type, by id
    cache,          \* the attribute cache of the Resource of one of them
    bundle,         \* the server's side of a Bundle: [prototypes, objects]
    client          \* the ADCMClient under construction or in auth

taskVars == <<object_type, status, op, log_failed, pc, timeout, elapsed, lastRead,
              requests, errors, filters, after, jobs, queue, qi, fi, fetched,
              answers, emitted, failedAt, dumpEnd, waitOutcome, outcome>>
gateVars == <<calls>>
confVars == <<remote, csd, action, records, cache>>
clientVars == <<bundle, client>>
vars == <<adcm_version, taskVars, gateVars, confVars, clientVars>>

\* ------------------------------------------------------------ Task.wait
\* what Task.wait does with the result of wait_for_attr: whether it calls
\* _log_jobs, with which filters, and how it ends afterwards
Task_wait_CatchAll(res, lf) ==
    IF res.kind = "return"
    THEN [log |-> lf /\ res.value = "failed",
          filters |-> {<<"status", res.value>>}, after |-> res]
    ELSE [log |-> lf, filters |-> {}, after |-> Raise("WaitTimeout")]

Task_wait_NoFilter(res, lf) ==
    IF res.kind = "return"
    THEN [log |-> lf /\ res.value = "failed", filters |-> {}, after |-> res]
    ELSE IF res.value = "WaitTimeout"
    THEN [log |-> lf, filters |-> {}, after |-> Raise("WaitTimeout")]
    ELSE [log |-> FALSE, filters |-> {}, after |-> res]

Task_wait_RaiseFailed(res, lf) ==
    IF res.kind = "return"
    THEN [log |-> lf /\ res.value = "failed",
          filters |-> {<<"status", res.value>>},
          after |-> IF res.value = "failed" THEN Raise("TaskFailed") ELSE res]
    ELSE IF res.value = "WaitTimeout"
    THEN [log |-> lf, filters |-> {}, after |-> Raise("WaitTimeout")]
    ELSE [log |-> FALSE, filters |-> {}, after |-> res]

Task_wait_TimeoutFilter(res, lf) ==
    IF res.kind = "return"
    THEN [log |-> lf /\ res.value = "failed",
          filters |-> {<<"status", res.value>>}, after |-> res]
    ELSE IF res.value = "WaitTimeout"
    THEN [log |-> lf, filters |-> {<<"status", "failed">>},
          after |-> Raise("WaitTimeout")]
    ELSE [log |-> FALSE, filters |-> {}, after |-> res]

Task_wait(res, lf) ==
    IF res.kind = "return"
    THEN [log |-> lf /\ res.value = "failed",
          filters |-> {<<"status", res.value>>}, after |-> res]
    ELSE IF res.value = "WaitTimeout"
    THEN [log |-> lf, filters |-> {}, after |-> Raise("WaitTimeout")]
    ELSE [log |-> FALSE, filters |-> {}, after |-> res]

\* Job.wait returns what wait_for_attr returns and raises what it raises
Job_wait(res) == [log |-> FALSE, filters |-> {}, after |-> res]

\* Task.try_wait, given how self.wait(timeout=timeout) ended
Task_try_wait_NotSuccess(w) ==
    IF w.kind = "return" /\ w.value # "success" THEN Raise("TaskFailed")
    ELSE IF w.kind = "raise" /\ w.value = "WaitTimeout" THEN Raise("TaskFailed")
    ELSE w

Task_try_wait(w) ==
    IF w.kind = "return" /\ w.value = "failed" THEN Raise("TaskFailed") ELSE w

\* the statuses that end the wait of the running call
EndStatuses(o) == IF o = "job_wait" THEN Job_END_STATUSES ELSE Task_END_STATUSES

\* one round of wait_for_attr after the status was read as s with e
\* intervals elapsed of t: the status is returned, the wait times out, or
\* wait_for_attr sleeps one interval and polls again
wait_for_attr(s, values, e, t) ==
    IF s \in values THEN Return(s)
    ELSE IF e >= t THEN Raise("WaitTimeout")
    ELSE NoOutcome


\* ------------------------------------------------------- Task._log_jobs
\* the kinds of object a task can have run on (the server's object_type)
ObjectTypes == {"cluster", "adcm"}
\* the keys of TASK_PARENT
TASK_PARENT == {"cluster", "service", "host", "provider", "component"}

\* the statuses of the jobs of a task; _log_jobs tells "failed" from the rest
JobStatuses == {"failed", "success"}
Job == [status : JobStatuses, nfiles : 0..MaxLogs]
RECURSIVE SeqsUpTo(_, _)
SeqsUpTo(S, n) ==
    IF n = 0 THEN {<< >>}
    ELSE LET shorter == SeqsUpTo(S, n - 1)
         IN  shorter \cup {Append(q, x) : q \in {r \in shorter : Len(r) = n - 1}, x \in S}

RECURSIVE TotalFiles(_)
TotalFiles(js) == IF js = << >> THEN 0 ELSE Head(js).nfiles + TotalFiles(Tail(js))

\* the job lists a task can own
TaskJobs == {js \in SeqsUpTo(Job, MaxJobs) : TotalFiles(js) <= MaxLogs}

\* min_server_version(minimum): the decorated method is refused on a server
\* older than minimum
min_server_version(ver, minimum) == compare_versions(ver, minimum) < 0

\* Task.job_list(**filters): the jobs of the task the server selects, in
\* the server's order
RECURSIVE Task_job_list(_, _, _)
Task_job_list(js, fs, i) ==
    IF i > Len(js) THEN << >>
    ELSE IF \A f \in fs : f[1] = "status" => js[i].status = f[2]
    THEN <<i>> \o Task_job_list(js, fs, i + 1)
    ELSE Task_job_list(js, fs, i + 1)

\* Task.action(), given the reply to the requests for the owner's action:
\* "ok" or the error they raise
Task_action(ver, otype, reply) ==
    IF min_server_version(ver, V_2020_08_27_00) THEN Raise("VersionMismatch")
    ELSE IF otype \notin TASK_PARENT THEN Raise("KeyError")
    ELSE IF reply = "ok" THEN Return("name")
    ELSE IF reply = "ErrorMessage" THEN ErrorMessage("SERVER_ERROR")
    ELSE Raise(reply)

\* whether Task.action() sends a request at all
Task_action_requests(ver, otype) ==
    ~min_server_version(ver, V_2020_08_27_00) /\ otype \in TASK_PARENT

\* the name of the task's action in _log_jobs: self.action().name, and on an
\* ErrorMessage the name read from the stack endpoint; fallback is the reply
\* to that read
ActionName_CatchAny(ver, otype, reply, fallback) ==
    LET r == Task_action(ver, otype, reply)
    IN  IF r.kind = "raise" /\ r.value \in {"ErrorMessage", "ObjectNotFound"}
        THEN IF fallback = "ok" THEN Return("name") ELSE ErrorMessage("SERVER_ERROR")
        ELSE r

ActionName(ver, otype, reply, fallback) ==
    LET r == Task_action(ver, otype, reply)
    IN  IF r.kind = "raise" /\ r.value = "ErrorMessage"
        THEN IF fallback = "ok" THEN Return("name") ELSE ErrorMessage("SERVER_ERROR")
        ELSE r

\* log_func of a job
LogLevel(job) == IF job.status = "failed" THEN "error" ELSE "info"

\* what _log_jobs does with an ErrorMessage of a log file request
OnLogError_SkipAll(code) == "continue"

OnLogError_RaiseAll(code) == "raise"

OnLogError(code) == IF code = "LOG_NOT_FOUND" THEN "continue" ELSE "raise"

\* the lines logged for a log file that was fetched
LogContent(j, f, level) == {<<j, f, level>>}

\* the position of _log_jobs after the log files 1..f of the job at q
NextPos(js, qu, q, f) ==
    IF f < js[qu[q]].nfiles THEN [pc |-> "file", qi |-> q, fi |-> f + 1]
    ELSE IF q < Len(qu) THEN [pc |-> "name", qi |-> q + 1, fi |-> 0]
    ELSE [pc |-> "end", qi |-> q, fi |-> f]


\* -------------------------------------------------------------- actions
\* the versions a server of the wait specification advertises
TaskVersions == {V_2020_08_26_23, V_2020_08_27_00}

callVars == <<op, log_failed>>
pollVars == <<timeout, elapsed, lastRead>>
reqVars == <<requests, errors>>
dumpVars == <<filters, after, jobs, queue, qi, fi, fetched, answers, emitted,
              failedAt, dumpEnd>>
envVars == <<adcm_version, object_type, calls, confVars, clientVars>>

Init ==
    /\ adcm_version \in TaskVersions
    /\ object_type \in ObjectTypes
    /\ status \in Statuses
    /\ op = "-" /\ log_failed = FALSE
    /\ pc = "idle"
    /\ timeout = 0 /\ elapsed = 0 /\ lastRead = "-"
    /\ requests = {} /\ errors = {}
    /\ filters = {} /\ after = NoOutcome
    /\ jobs = << >> /\ queue = << >> /\ qi = 0 /\ fi = 0
    /\ fetched = {} /\ answers = {} /\ emitted = {}
    /\ failedAt = << >> /\ dumpEnd = "none"
    /\ waitOutcome = NoOutcome /\ outcome = NoOutcome
    /\ calls = << >>
    /\ remote = NoEntry /\ csd = NoFrame /\ action = NoAction
    /\ records = NoRecords /\ cache = NoCache
    /\ bundle = NoBundle /\ client = NoClient

\* the call returns or raises: Task.try_wait post-processes the end of wait
End(w) ==
    /\ pc' = "done"
    /\ waitOutcome' = w
    /\ outcome' = IF op = "try_wait" THEN Task_try_wait(w) ELSE w

\* task.wait(timeout, log_failed), task.try_wait(timeout) or job.wait(timeout)
Call ==
    /\ pc = "idle"
    /\ \E o \in {"wait", "try_wait", "job_wait"}, t \in 0..MaxTimeout, lf \in BOOLEAN :
          /\ o = "try_wait" => lf = TRUE
          /\ o = "job_wait" => lf = FALSE
          /\ op' = o /\ timeout' = t /\ log_failed' = lf
    /\ pc' = "poll"
    /\ UNCHANGED <<elapsed, lastRead, reqVars, dumpVars, envVars, status,
                   waitOutcome, outcome>>

\* the server moves the polled Task or Job on; only a poll reads the status
ServerStep ==
    /\ pc \in {"idle", "poll"}
    /\ status' \in ServerNext(status)
    /\ UNCHANGED <<callVars, pollVars, reqVars, dumpVars, envVars, pc, waitOutcome,
                   outcome>>

\* wait goes on with the result res of wait_for_attr
AfterWaitForAttr(res) ==
    LET plan == IF op = "job_wait" THEN Job_wait(res) ELSE Task_wait(res, log_failed)
    IN  /\ timeout' = 0 /\ elapsed' = 0
        /\ IF plan.log
           THEN /\ pc' = "list"
                /\ filters' = plan.filters /\ after' = plan.after
                /\ dumpEnd' = "running"
                /\ UNCHANGED <<waitOutcome, outcome>>
           ELSE /\ End(plan.after)
                /\ UNCHANGED <<filters, after, dumpEnd>>
        /\ UNCHANGED <<jobs, queue, qi, fi, fetched, answers, emitted, failedAt>>

\* one poll of wait_for_attr: the status is re-read
Poll ==
    /\ pc = "poll"
    /\ requests' = requests \cup {"status"}
    /\ lastRead' = status
    /\ LET res == wait_for_attr(status, EndStatuses(op), elapsed, timeout)
       IN  IF res = NoOutcome
           THEN /\ elapsed' = elapsed + 1
                /\ UNCHANGED <<timeout, pc, dumpVars, waitOutcome, outcome>>
           ELSE AfterWaitForAttr(res)
    /\ UNCHANGED <<callVars, errors, envVars, status>>

\* one poll of wait_for_attr: the request fails with a transport error
PollError ==
    /\ pc = "poll"
    /\ requests' = requests \cup {"status"}
    /\ errors' = errors \cup {<<"status", "ErrorMessage", "SERVER_ERROR">>}
    /\ AfterWaitForAttr(ErrorMessage("SERVER_ERROR"))
    /\ UNCHANGED <<callVars, lastRead, envVars, status>>

\* _log_jobs moves to the position pos, or returns
Advance(pos) ==
    IF pos.pc = "end"
    THEN /\ dumpEnd' = "complete"
         /\ End(after)
         /\ UNCHANGED <<qi, fi>>
    ELSE /\ pc' = pos.pc /\ qi' = pos.qi /\ fi' = pos.fi
         /\ UNCHANGED <<dumpEnd, waitOutcome, outcome>>

\* _log_jobs raises e
DumpRaises(e) ==
    /\ dumpEnd' = "error"
    /\ End(e)
    /\ UNCHANGED <<qi, fi>>

\* _log_jobs: self.job_list(**filters)
LogJobsList ==
    /\ pc = "list"
    /\ requests' = requests \cup {"job_list"}
    /\ \/ /\ errors' = errors \cup {<<"job_list", "ErrorMessage", "SERVER_ERROR">>}
          /\ DumpRaises(ErrorMessage("SERVER_ERROR"))
          /\ UNCHANGED <<jobs, queue>>
       \/ \E js \in TaskJobs :
             /\ UNCHANGED errors
             /\ jobs' = js
             /\ queue' = Task_job_list(js, filters, 1)
             /\ IF queue' = << >>
                THEN /\ dumpEnd' = "complete" /\ End(after) /\ UNCHANGED <<qi, fi>>
                ELSE /\ pc' = "name" /\ qi' = 1 /\ fi' = 0
                     /\ UNCHANGED <<dumpEnd, waitOutcome, outcome>>
    /\ UNCHANGED <<callVars, pollVars, envVars, status, filters, after, fetched,
                   answers, emitted, failedAt>>

\* the requests of one action name lookup and the errors they raise
ActionRequests(ver, otype, reply) ==
    IF ~Task_action_requests(ver, otype) THEN {}
    ELSE IF Task_action(ver, otype, reply).value = "ErrorMessage"
    THEN {"action", "stack_action"}
    ELSE {"action"}

ActionErrors(ver, otype, reply, fallback) ==
    IF ~Task_action_requests(ver, otype) \/ reply = "ok" THEN {}
    ELSE IF reply = "ErrorMessage"
    THEN {<<"action", "ErrorMessage", "SERVER_ERROR">>}
         \cup (IF fallback = "ok" THEN {}
               ELSE {<<"stack_action", "ErrorMessage", "SERVER_ERROR">>})
    ELSE {<<"action", reply, "-">>}

\* _log_jobs: the action name of the job at qi is looked up and logged
LogJobAction ==
    /\ pc = "name"
    /\ \E reply \in {"ok", "ErrorMessage", "ObjectNotFound"}, fallback \in {"ok", "ErrorMessage"} :
          LET j == queue[qi]
              r == ActionName(adcm_version, object_type, reply, fallback)
          IN  /\ requests' = requests \cup ActionRequests(adcm_version, object_type, reply)
              /\ errors' = errors \cup ActionErrors(adcm_version, object_type, reply, fallback)
              /\ IF r.kind = "raise"
                 THEN /\ DumpRaises(r)
                      /\ UNCHANGED emitted
                 ELSE /\ emitted' = emitted \cup {<<j, 0, LogLevel(jobs[j])>>}
                      /\ Advance(NextPos(jobs, queue, qi, 0))
    /\ UNCHANGED <<callVars, pollVars, envVars, status, filters, after, jobs, queue,
                   fetched, answers, failedAt>>

\* _log_jobs: the log file at fi of the job at qi is requested
LogFile ==
    /\ pc = "file"
    /\ LET j == queue[qi]
       IN  /\ requests' = requests \cup {"log"}
           /\ fetched' = fetched \cup {<<j, fi>>}
           /\ \E a \in {"ok"} \cup ErrorCodes :
                 /\ answers' = answers \cup {<<j, fi, a>>}
                 /\ errors' = IF a = "ok" THEN errors
                              ELSE errors \cup {<<"log", "ErrorMessage", a>>}
                 /\ IF a = "ok"
                    THEN /\ emitted' = emitted \cup LogContent(j, fi, LogLevel(jobs[j]))
                         /\ Advance(NextPos(jobs, queue, qi, fi))
                         /\ UNCHANGED failedAt
                    ELSE IF OnLogError(a) = "continue"
                    THEN /\ Advance(NextPos(jobs, queue, qi, fi))
                         /\ UNCHANGED <<emitted, failedAt>>
                    ELSE /\ failedAt' = <<j, fi>>
                         /\ DumpRaises(ErrorMessage(a))
                         /\ UNCHANGED emitted
    /\ UNCHANGED <<callVars, pollVars, envVars, status, filters, after, jobs, queue>>

Next ==
    \/ Call
    \/ ServerStep
    \/ Poll
    \/ PollError
    \/ LogJobsList
    \/ LogJobAction
    \/ LogFile

Spec == Init /\ [][Next]_vars


\* --------------------------------------------------------- version gate
\* legacy_server_implementaion(oldfunc, turnover_version): the
\* implementations one call of the decorated method runs on a server of
\* version ver
legacy_server_implementaion(ver, oldfunc, turnover_version, newfunc) ==
    IF compare_versions(ver, turnover_version) < 0 THEN {oldfunc} ELSE {newfunc}

\* Service.__new__ and ServiceList.__new__: PATH of the new instance
Service_PATH_ComponentTurnover(ver) ==
    IF compare_versions(ver, V_2021_03_12_16) < 0 THEN "None" ELSE "service"

Service_PATH(ver) ==
    IF compare_versions(ver, V_2020_09_25_13) < 0 THEN "None" ELSE "service"

\* Component.__new__ and ComponentList.__new__: PATH of the new instance
Component_PATH(ver) ==
    IF compare_versions(ver, V_2021_03_12_16) < 0 THEN "None" ELSE "component"

\* Cluster.service
Cluster_service_ComponentTurnover(ver) ==
    legacy_server_implementaion(ver, "_service_old", V_2021_03_12_16, "service")

Cluster_service(ver) ==
    legacy_server_implementaion(ver, "_service_old", V_2020_09_25_13, "service")

\* Cluster.service_list
Cluster_service_list(ver) ==
    legacy_server_implementaion(ver, "_service_list_old", V_2020_09_25_13, "service_list")

\* Cluster.service_add
Cluster_service_add(ver) ==
    legacy_server_implementaion(ver, "_service_add_old", V_2020_09_25_13, "service_add")

\* Service.component
Service_component(ver) ==
    legacy_server_implementaion(ver, "_component_old", V_2021_03_12_16, "component")

\* Service.component_list
Service_component_list(ver) ==
    legacy_server_implementaion(ver, "_component_list_old", V_2021_03_12_16, "component_list")

\* how an implementation addresses the object it returns: the legacy ones as
\* a subobject of the parent, the modern ones as a child or by id
Addressing(impl) ==
    CASE impl \in {"_service_old", "_service_list_old", "_service_add_old",
                   "_component_old", "_component_list_old"} -> "_subobject"
      [] impl \in {"service", "service_list", "component", "component_list"} -> "_child_obj"
      [] impl = "service_add" -> "id"

\* the versions a server of the gate specification advertises
GateVersions == {V_2020_08_27_00, V_2020_9_1_0, V_2020_09_25_12, V_2020_09_25_13,
                 V_2020_10_01_00, V_2021_03_12_9, V_2021_03_12_15, V_2021_03_12_16}

InitGate ==
    /\ adcm_version \in GateVersions
    /\ object_type = "cluster"
    /\ status = "created"
    /\ op = "-" /\ log_failed = FALSE
    /\ pc = "idle"
    /\ timeout = 0 /\ elapsed = 0 /\ lastRead = "-"
    /\ requests = {} /\ errors = {}
    /\ filters = {} /\ after = NoOutcome
    /\ jobs = << >> /\ queue = << >> /\ qi = 0 /\ fi = 0
    /\ fetched = {} /\ answers = {} /\ emitted = {}
    /\ failedAt = << >> /\ dumpEnd = "none"
    /\ waitOutcome = NoOutcome /\ outcome = NoOutcome
    /\ calls = << >>
    /\ remote = NoEntry /\ csd = NoFrame /\ action = NoAction
    /\ records = NoRecords /\ cache = NoCache
    /\ bundle = NoBundle /\ client = NoClient

\* one call of a gated method: the implementations it ran and the handle
\* they returned are recorded
GatedCall(name, ran, cls, path) ==
    /\ Len(calls) < MaxCalls
    /\ calls' = Append(calls, [op |-> name, version |-> adcm_version, ran |-> ran,
                               how |-> {Addressing(i) : i \in ran},
                               cls |-> cls, PATH |-> path])
    /\ UNCHANGED <<adcm_version, taskVars, clientVars, confVars>>

ClusterService ==
    GatedCall("Cluster.service", Cluster_service(adcm_version),
              "Service", Service_PATH(adcm_version))

ClusterServiceList ==
    GatedCall("Cluster.service_list", Cluster_service_list(adcm_version),
              "ServiceList", Service_PATH(adcm_version))

ClusterServiceAdd ==
    GatedCall("Cluster.service_add", Cluster_service_add(adcm_version),
              "Service", Service_PATH(adcm_version))

ServiceComponent ==
    GatedCall("Service.component", Service_component(adcm_version),
              "Component", Component_PATH(adcm_version))

ServiceComponentList ==
    GatedCall("Service.component_list", Service_component_list(adcm_version),
              "ComponentList", Component_PATH(adcm_version))

\* ADCMClient.reread() after the client was pointed at another server
Reread ==
    /\ adcm_version' \in GateVersions \ {adcm_version}
    /\ UNCHANGED <<taskVars, gateVars, confVars, clientVars>>

NextGate ==
    \/ ClusterService
    \/ ClusterServiceList
    \/ ClusterServiceAdd
    \/ ServiceComponent
    \/ ServiceComponentList
    \/ Reread

SpecGate == InitGate /\ [][NextGate]_vars


\* ------------------------------------------------ minimum server version
\* a method decorated with min_server_version(minimum) whose body sends the
\* request req, answered by reply: on a server older than minimum the method
\* raises before its body runs
Guarded(ver, minimum, req, reply) ==
    IF min_server_version(ver, minimum)
    THEN [outcome |-> Raise("VersionMismatch"), requests |-> {}]
    ELSE [outcome |-> IF reply = "ok" THEN Return(req)
                      ELSE IF reply = "ErrorMessage" THEN ErrorMessage("SERVER_ERROR")
                      ELSE Raise(reply),
          requests |-> {req}]

\* ServicePrototype.service
ServicePrototype_service(ver, reply) ==
    Guarded(ver, V_2020_09_25_13, "service", reply)

\* ServicePrototype.service_list
ServicePrototype_service_list(ver, reply) ==
    Guarded(ver, V_2020_09_25_13, "service_list", reply)

\* Cluster.service_delete
Cluster_service_delete_Unguarded(ver, reply) ==
    [outcome |-> IF reply = "ok" THEN Return("service_delete")
                 ELSE ErrorMessage("SERVER_ERROR"),
     requests |-> {"service_delete"}]

Cluster_service_delete(ver, reply) ==
    Guarded(ver, V_2020_05_13_00, "service_delete", reply)

\* the object types a server reports in Task.object_type: every kind of
\* object that owns actions
ServerObjectTypes == {"cluster", "service", "host", "provider", "component", "adcm"}

\* the versions a server of the guard specification advertises
GuardVersions == {V_2020_05_12_23, V_2020_5_9_0, V_2020_05_13_00, V_2020_08_26_23,
                  V_2020_08_27_00, V_2020_9_1_0, V_2020_09_25_12, V_2020_09_25_13}

\* the replies of the server to a lookup
LookupReplies == {"ok", "ObjectNotFound", "ErrorMessage"}

InitGuard ==
    /\ adcm_version \in GuardVersions
    /\ object_type \in ServerObjectTypes
    /\ status = "created"
    /\ op = "-" /\ log_failed = FALSE
    /\ pc = "idle"
    /\ timeout = 0 /\ elapsed = 0 /\ lastRead = "-"
    /\ requests = {} /\ errors = {}
    /\ filters = {} /\ after = NoOutcome
    /\ jobs = << >> /\ queue = << >> /\ qi = 0 /\ fi = 0
    /\ fetched = {} /\ answers = {} /\ emitted = {}
    /\ failedAt = << >> /\ dumpEnd = "none"
    /\ waitOutcome = NoOutcome /\ outcome = NoOutcome
    /\ calls = << >>
    /\ remote = NoEntry /\ csd = NoFrame /\ action = NoAction
    /\ records = NoRecords /\ cache = NoCache
    /\ bundle = NoBundle /\ client = NoClient

\* one call of a guarded method: what it requested and how it ended are
\* recorded
GuardedCall(name, r) ==
    /\ Len(calls) < MaxCalls
    /\ calls' = Append(calls, [op |-> name, version |-> adcm_version,
                               otype |-> object_type,
                               requests |-> r.requests, outcome |-> r.outcome])
    /\ UNCHANGED <<adcm_version, taskVars, clientVars, confVars>>

ServicePrototypeService ==
    \E reply \in LookupReplies :
        GuardedCall("ServicePrototype.service",
                    ServicePrototype_service(adcm_version, reply))

ServicePrototypeServiceList ==
    \E reply \in {"ok", "ErrorMessage"} :
        GuardedCall("ServicePrototype.service_list",
                    ServicePrototype_service_list(adcm_version, reply))

ClusterServiceDelete ==
    \E reply \in {"ok", "ErrorMessage"} :
        GuardedCall("Cluster.service_delete",
                    Cluster_service_delete(adcm_version, reply))

\* task.action() of a Task whose object_type the server reported
TaskAction ==
    \E reply \in LookupReplies :
        GuardedCall("Task.action",
                    [outcome |-> Task_action(adcm_version, object_type, reply),
                     requests |-> IF Task_action_requests(adcm_version, object_type)
                                  THEN {"action"} ELSE {}])

NextGuard ==
    \/ ServicePrototypeService
    \/ ServicePrototypeServiceList
    \/ ClusterServiceDelete
    \/ TaskAction

SpecGuard == InitGuard /\ [][NextGuard]_vars


\* ------------------------------------------------------------ Action.run
V_2021_02_04_12 == << <<2,0,2,1>>, <<0,2>>, <<0,4>>, <<1,2>> >>
V_2021_02_04_13 == << <<2,0,2,1>>, <<0,2>>, <<0,4>>, <<1,3>> >>

\* the items of Action.config['config']: the action's config schema with
\* its default values; a group comes before the items it holds
Item(type, name, subname, value) ==
    [type |-> type, name |-> name, subname |-> subname, value |-> value]

\* Action._get_config after the items 1..i
RECURSIVE Action_get_config_upto(_, _)
Action_get_config_upto(items, i) ==
    IF i = 0 THEN Dict({})
    ELSE LET config == Action_get_config_upto(items, i - 1)
             item == items[i]
         IN  IF item.type = "group" THEN Put(config, item.name, Dict({}))
             ELSE IF item.subname # ""
             THEN Put(config, item.name,
                      Put(Get(config, item.name), item.subname, item.value))
             ELSE Put(config, item.name, item.value)

\* Action._get_config
Action_get_config(items) == Action_get_config_upto(items, Len(items))

\* Action.run: args['config'] after the items 1..i were looked up in
\* config_diff
RECURSIVE Action_run_merge(_, _, _, _)
Action_run_merge(items, config_diff, config, i) ==
    IF i = 0 THEN config
    ELSE LET c == Action_run_merge(items, config_diff, config, i - 1)
             item == items[i]
             key == item.name
             subkey == item.subname
         IN  IF item.type = "group" THEN c
             ELSE IF subkey # "" /\ Has(config_diff, key)
                     /\ Has(Get(config_diff, key), subkey)
             THEN Put(c, key, Put(Get(c, key), subkey, Get(Get(config_diff, key), subkey)))
             ELSE IF subkey = "" /\ Has(config_diff, key)
             THEN Put(c, key, Get(config_diff, key))
             ELSE c

\* Action.run: whether the lookup of a subname in config_diff raises; a
\* scalar of config_diff is a number, and "subkey in 2" is a TypeError
Action_run_merge_raises(items, config_diff) ==
    \E i \in 1..Len(items) :
        /\ items[i].type # "group" /\ items[i].subname # ""
        /\ Has(config_diff, items[i].name)
        /\ ~IsMapping(Get(config_diff, items[i].name))

\* Action.run: the arguments of the run request
Action_run_args(ver, items, args) ==
    LET withConfig ==
            IF Has(args, "config") THEN args
            ELSE IF Has(args, "config_diff")
            THEN Put(Pop(args, "config_diff"), "config",
                     Action_run_merge(items, Get(args, "config_diff"),
                                      Action_get_config(items), Len(items)))
            ELSE Put(args, "config", Action_get_config(items))
    IN  IF compare_versions(ver, V_2021_02_04_13) >= 0
        THEN IF Has(withConfig, "verbose") THEN withConfig
             ELSE Put(withConfig, "verbose", Scalar("False"))
        ELSE Pop(withConfig, "verbose")

\* 'has issues' in desc: the words of sub stand in seq, in a row
Contains(seq, sub) ==
    \E i \in 0..(Len(seq) - Len(sub)) : SubSeq(seq, i + 1, i + Len(sub)) = sub

\* the error of a failed request: the title and the description words of
\* the server's answer
Error(title, desc) == [title |-> title, desc |-> desc]
NoError == Error("-", << >>)
\* the answer to a request that succeeded
Ok == Error("200 OK", << >>)

\* Action.run: the except clause of the run request
Action_run_except_AnyConflict(error) ==
    IF error.title = "409 Conflict"
    THEN [raised |-> "ActionHasIssues", error |-> NoError]
    ELSE [raised |-> "ErrorMessage", error |-> error]

Action_run_except(error) ==
    IF error.title = "409 Conflict" /\ Contains(error.desc, <<"has", "issues">>)
    THEN [raised |-> "ActionHasIssues", error |-> NoError]
    ELSE [raised |-> "ErrorMessage", error |-> error]

\* what a call that sent nothing and returned nothing leaves behind
NotSent == [requests |-> << >>, sent |-> None, task |-> "None"]

\* Action.run(**args) on a server of version ver that answers the run
\* request with reply: Ok or an error
Action_run_SendFirst(ver, items, args, reply) ==
    IF Has(args, "config") /\ Has(args, "config_diff")
    THEN [raised |-> "TypeError", error |-> NoError,
          requests |-> <<"run.create">>, sent |-> args, task |-> "Task"]
    ELSE [raised |-> "-", error |-> NoError, requests |-> <<"run.create">>,
          sent |-> Action_run_args(ver, items, args), task |-> "Task"]

Action_run(ver, items, args, reply) ==
    IF Has(args, "config") /\ Has(args, "config_diff")
    THEN [raised |-> "TypeError", error |-> NoError] @@ NotSent
    ELSE IF ~Has(args, "config") /\ Has(args, "config_diff")
            /\ Action_run_merge_raises(items, Get(args, "config_diff"))
    THEN [raised |-> "TypeError", error |-> NoError] @@ NotSent
    ELSE LET sent == Action_run_args(ver, items, args)
         IN  IF reply = Ok
             THEN [raised |-> "-", error |-> NoError, requests |-> <<"run.create">>,
                   sent |-> sent, task |-> "Task"]
             ELSE Action_run_except(reply) @@
                  [requests |-> <<"run.create">>, sent |-> sent, task |-> "None"]

\* the schemas of the actions of the run specification
ActionSchemas ==
    { << >>,
      << Item("integer", "a", "", Scalar("1")),
         Item("group", "g", "", None),
         Item("integer", "g", "x", Scalar("1")),
         Item("integer", "g", "y", Scalar("1")) >> }

\* the keyword arguments of a call of run
RunConfigs == {Dict({<<"a", Scalar("2")>>})}
RunConfigDiffs ==
    { Dict({<<"a", Scalar("2")>>}),
      Dict({<<"g", Dict({<<"x", Scalar("2")>>})>>}),
      Dict({<<"b", Scalar("2")>>, <<"g", Dict({<<"z", Scalar("2")>>})>>}),
      Dict({<<"g", Scalar("2")>>}) }
RunArgs ==
    { Dict(c \cup d \cup v \cup h) :
        c \in {{}} \cup {{<<"config", x>>} : x \in RunConfigs},
        d \in {{}} \cup {{<<"config_diff", x>>} : x \in RunConfigDiffs},
        v \in {{}, {<<"verbose", Scalar("True")>>}},
        h \in {{}, {<<"hc", Scalar("hc")>>}} }

\* the errors a run request is answered with
RunErrors ==
    { Error("409 Conflict", <<"object", "has", "issues">>),
      Error("409 Conflict", <<"issues", "has", "object">>),
      Error("409 Conflict", <<"task", "is", "running">>),
      Error("409 Conflict", << >>),
      Error("404 Not Found", <<"object", "has", "issues">>),
      Error("500 Internal Server Error", << >>),
      Error("", <<"has", "issues">>) }

\* the versions a server of the run specification advertises
RunVersions == {V_2021_02_04_12, V_2021_02_04_13}

InitRun ==
    /\ adcm_version \in RunVersions
    /\ object_type = "cluster"
    /\ status = "created"
    /\ op = "-" /\ log_failed = FALSE
    /\ pc = "idle"
    /\ timeout = 0 /\ elapsed = 0 /\ lastRead = "-"
    /\ requests = {} /\ errors = {}
    /\ filters = {} /\ after = NoOutcome
    /\ jobs = << >> /\ queue = << >> /\ qi = 0 /\ fi = 0
    /\ fetched = {} /\ answers = {} /\ emitted = {}
    /\ failedAt = << >> /\ dumpEnd = "none"
    /\ waitOutcome = NoOutcome /\ outcome = NoOutcome
    /\ calls = << >>
    /\ remote = NoEntry /\ csd = NoFrame
    /\ action \in {[config |-> items] : items \in ActionSchemas}
    /\ records = NoRecords /\ cache = NoCache
    /\ bundle = NoBundle /\ client = NoClient

\* action.run(**args)
ActionRun ==
    /\ calls = << >>
    /\ \E args \in RunArgs, reply \in {Ok} \cup RunErrors :
          calls' = <<[op |-> "Action.run", version |-> adcm_version, args |-> args,
                      reply |-> reply]
                     @@ Action_run(adcm_version, action.config, args, reply)>>
    /\ UNCHANGED <<adcm_version, taskVars, clientVars, confVars>>

NextRun == ActionRun

SpecRun == InitRun /\ [][NextRun]_vars


\* ------------------------------------------------- config, config_set_diff
\* the history entry config/current/list answers with, as a dict
HistoryEntry(entry) ==
    Dict({<<"id", Scalar("1")>>, <<"config", entry.config>>, <<"attr", entry.attr>>})

\* _BaseObject.config(full), given the current entry of the server
BaseObject_config(entry, full) ==
    IF full THEN HistoryEntry(entry) ELSE entry.config

\* _BaseObject.config_set(data): the arguments of the config/history/create
\* request
BaseObject_config_set(data) ==
    IF Has(data, "config") /\ Has(data, "attr")
    THEN Dict({<<"config", Get(data, "config")>>,
               <<"attr", IF Get(data, "attr") = None THEN Dict({})
                         ELSE Get(data, "attr")>>})
    ELSE Dict({<<"config", data>>})

\* _BaseObject.config_set: what it returns, given the entry the server
\* answered the request with
BaseObject_config_set_result(data, entry) ==
    IF Has(data, "config") /\ Has(data, "attr")
    THEN Dict({<<"config", entry.config>>, <<"attr", entry.attr>>})
    ELSE entry.config

\* update(d, u) of config_set_diff: a key whose old and new values are both
\* mappings is updated, every other key of u replaces the old value
RECURSIVE update(_, _)
update(d, u) ==
    Dict({<<key, IF ~Has(u, key) THEN Get(d, key)
                 ELSE IF IsMapping(Get(u, key)) /\ Has(d, key) /\ IsMapping(Get(d, key))
                 THEN update(Get(d, key), Get(u, key))
                 ELSE Get(u, key)>> : key \in Keys(d) \cup Keys(u)})

\* is_full of config_set_diff
is_full(data) == Has(data, "config") /\ Has(data, "attr")

\* _BaseObject.config_set_diff(data): what it hands to config_set, given the
\* entry its read returned and the entry that is current when it writes
BaseObject_config_set_diff_Reread(read, current, data) ==
    update(BaseObject_config(current, is_full(data)), data)

BaseObject_config_set_diff(read, current, data) ==
    update(BaseObject_config(read, is_full(data)), data)

\* config/history/create on the server: the entries that can become current.
\* A request without attr leaves the attributes to the server, which keeps
\* the current ones or starts from none.
HistoryCreate(entry, request) ==
    {[config |-> Get(request, "config"), attr |-> a] :
        a \in IF Has(request, "attr") THEN {Get(request, "attr")}
              ELSE {entry.attr, Dict({})}}

\* the config documents of an object: plain ones, and ones of an object
\* whose parameters are named "config" and "attr"
ConfigDoc(a, x) ==
    Dict({<<"a", Scalar(a)>>,
          <<"g", Dict({<<"x", Scalar(x)>>, <<"y", Scalar("1")>>})>>})
RemoteConfigs ==
    {ConfigDoc(a, x) : a \in {"1", "2"}, x \in {"1", "2"}} \cup
    {Dict({<<"config", Dict({<<"a", Scalar(a)>>})>>, <<"attr", Scalar("1")>>}) :
        a \in {"1", "2"}}
RemoteAttrs ==
    {None, Dict({}), Dict({<<"g", Dict({<<"active", Scalar("True")>>})>>})}
RemoteEntries == [config : RemoteConfigs, attr : RemoteAttrs]

\* the diffs config_set_diff is called with
Diffs ==
    { Dict({}),
      Dict({<<"a", Scalar("2")>>}),
      Dict({<<"g", Dict({<<"x", Scalar("2")>>})>>}),
      Dict({<<"g", Scalar("2")>>}),
      Dict({<<"b", Dict({<<"z", Scalar("1")>>})>>}),
      Dict({<<"config", Dict({<<"a", Scalar("2")>>})>>,
            <<"attr", Dict({<<"g", Dict({<<"active", Scalar("False")>>})>>})>>}),
      Dict({<<"config", Dict({})>>, <<"attr", Dict({})>>}) }

\* config_set_diff before it is called
IdleFrame ==
    [pc |-> "idle", data |-> None, read |-> NoEntry, before |-> NoEntry,
     sent |-> None, written |-> NoEntry, result |-> None, raced |-> FALSE,
     reply |-> NoError, outcome |-> "-"]

InitConfig ==
    /\ adcm_version = V_2021_03_12_16
    /\ object_type = "cluster"
    /\ status = "created"
    /\ op = "-" /\ log_failed = FALSE
    /\ pc = "idle"
    /\ timeout = 0 /\ elapsed = 0 /\ lastRead = "-"
    /\ requests = {} /\ errors = {}
    /\ filters = {} /\ after = NoOutcome
    /\ jobs = << >> /\ queue = << >> /\ qi = 0 /\ fi = 0
    /\ fetched = {} /\ answers = {} /\ emitted = {}
    /\ failedAt = << >> /\ dumpEnd = "none"
    /\ waitOutcome = NoOutcome /\ outcome = NoOutcome
    /\ calls = << >>
    /\ remote \in RemoteEntries
    /\ csd = IdleFrame
    /\ action = NoAction
    /\ records = NoRecords /\ cache = NoCache
    /\ bundle = NoBundle /\ client = NoClient

\* obj.config_set_diff(data) up to the answer to its read, self.config(full)
ConfigSetDiffRead ==
    /\ csd.pc = "idle"
    /\ \E data \in Diffs :
          \/ csd' = [csd EXCEPT !.pc = "merge", !.data = data, !.read = remote]
          \/ csd' = [csd EXCEPT !.pc = "done", !.data = data,
                                !.reply = Error("500 Internal Server Error", << >>),
                                !.outcome = "ErrorMessage"]
    /\ UNCHANGED <<adcm_version, taskVars, clientVars, gateVars, remote, action, records, cache>>

\* another client writes the config of the same object
OtherWriter ==
    /\ csd.pc \in {"idle", "merge"}
    /\ remote' \in RemoteEntries \ {remote}
    /\ csd' = IF csd.pc = "merge" THEN [csd EXCEPT !.raced = TRUE] ELSE csd
    /\ UNCHANGED <<adcm_version, taskVars, clientVars, gateVars, action, records, cache>>

\* obj.config_set_diff(data) from the merge on: update(config, data) and
\* config_set, whose request the server accepts or refuses
ConfigSetDiffWrite ==
    /\ csd.pc = "merge"
    /\ LET merged == BaseObject_config_set_diff(csd.read, remote, csd.data)
           request == BaseObject_config_set(merged)
       IN  \/ /\ remote' \in HistoryCreate(remote, request)
              /\ csd' = [csd EXCEPT !.pc = "done", !.before = remote, !.sent = request,
                                    !.written = remote',
                                    !.result = BaseObject_config_set_result(merged, remote'),
                                    !.reply = Ok, !.outcome = "return"]
           \/ /\ UNCHANGED remote
              /\ csd' = [csd EXCEPT !.pc = "done", !.before = remote, !.sent = request,
                                    !.reply = Error("400 Bad Request", << >>),
                                    !.outcome = "ErrorMessage"]
    /\ UNCHANGED <<adcm_version, taskVars, clientVars, gateVars, action, records, cache>>

NextConfig ==
    \/ ConfigSetDiffRead
    \/ OtherWriter
    \/ ConfigSetDiffWrite

SpecConfig == InitConfig /\ [][NextConfig]_vars


\* ---------------------------------------------- Resource: cache and lookup
\* the ids of the entities of the server
EntityIds == {1, 2}
\* the record of an entity: its <<field, value>> pairs; the server returns
\* the field description for some entities only
EntityRecords ==
    {{<<"name", n>>} \cup d :
        n \in {"foo", "bar"},
        d \in {{}, {<<"description", "x">>}}}

\* the fields of a record
Fields(rec) == {p[1] : p \in rec}

\* reread(): the cache after a re-fetch that returned the record fetched
Resource_reread_Merge(old, fetchedRecord) ==
    fetchedRecord \cup {p \in old : p[1] \notin Fields(fetchedRecord)}

Resource_reread(old, fetchedRecord) == fetchedRecord

\* a lookup by filters that expects one match: the ids of the entities
\* whose record has every pair of the filters
Matches(recs, fs) == {id \in DOMAIN recs : fs \subseteq recs[id]}

\* the only element of a set of one element
TheOne(S) == CHOOSE x \in S : TRUE

Resource_lookup_FirstMatch(recs, fs) ==
    LET m == Matches(recs, fs)
    IN  IF m = {} THEN [raised |-> "ObjectNotFound", id |-> 0]
        ELSE [raised |-> "-", id |-> CHOOSE x \in m : \A y \in m : x <= y]

Resource_lookup(recs, fs) ==
    LET m == Matches(recs, fs)
    IN  IF m = {} THEN [raised |-> "ObjectNotFound", id |-> 0]
        ELSE IF Cardinality(m) > 1 THEN [raised |-> "TooManyResults", id |-> 0]
        ELSE [raised |-> "-", id |-> TheOne(m)]

\* the filters of a lookup
LookupFilters == {{<<"name", "foo">>}, {<<"name", "bar">>},
                  {<<"name", "foo">>, <<"description", "x">>}}

\* the Resource the cache belongs to
CachedId == 1

InitResource ==
    /\ adcm_version = V_2021_03_12_16
    /\ object_type = "cluster"
    /\ status = "created"
    /\ op = "-" /\ log_failed = FALSE
    /\ pc = "idle"
    /\ timeout = 0 /\ elapsed = 0 /\ lastRead = "-"
    /\ requests = {} /\ errors = {}
    /\ filters = {} /\ after = NoOutcome
    /\ jobs = << >> /\ queue = << >> /\ qi = 0 /\ fi = 0
    /\ fetched = {} /\ answers = {} /\ emitted = {}
    /\ failedAt = << >> /\ dumpEnd = "none"
    /\ waitOutcome = NoOutcome /\ outcome = NoOutcome
    /\ calls = << >>
    /\ remote = NoEntry /\ csd = NoFrame /\ action = NoAction
    /\ records \in [EntityIds -> EntityRecords]
    /\ cache = [loaded |-> FALSE, fields |-> {}, seen |-> {}, prev |-> {}, last |-> "-"]
    /\ bundle = NoBundle /\ client = NoClient

\* the server changes the record of an entity: fields change, appear or
\* are no longer returned
ServerChange ==
    /\ \E id \in EntityIds :
          \E rec \in EntityRecords \ {records[id]} :
              records' = [records EXCEPT ![id] = rec]
    /\ UNCHANGED <<adcm_version, taskVars, clientVars, gateVars, remote, csd, action, cache>>

\* the first access to a field of the Resource fetches its record and caches
\* every field of it
ResourceGet ==
    /\ ~cache.loaded
    /\ cache' = [loaded |-> TRUE, fields |-> records[CachedId],
                 seen |-> records[CachedId], prev |-> cache.fields, last |-> "get"]
    /\ UNCHANGED <<adcm_version, taskVars, clientVars, gateVars, remote, csd, action, records>>

\* resource.reread()
ResourceReread ==
    /\ cache' = [loaded |-> TRUE,
                 fields |-> Resource_reread(cache.fields, records[CachedId]),
                 seen |-> records[CachedId], prev |-> cache.fields, last |-> "reread"]
    /\ UNCHANGED <<adcm_version, taskVars, clientVars, gateVars, remote, csd, action, records>>

\* a lookup by filters that expects one match
ResourceLookup ==
    /\ calls = << >>
    /\ \E fs \in LookupFilters :
          calls' = <<[op |-> "lookup", filters |-> fs, records |-> records]
                     @@ Resource_lookup(records, fs)>>
    /\ UNCHANGED <<adcm_version, taskVars, clientVars, confVars>>

NextResource ==
    \/ ServerChange
    \/ ResourceGet
    \/ ResourceReread
    \/ ResourceLookup

SpecResource == InitResource /\ [][NextResource]_vars


\* ------------------------------------------------------------------ Bundle
\* the kinds of prototype a bundle can hold an object of
BundleKinds == {"cluster", "provider"}
\* the names of the clusters and providers of the server
ObjectNames == {"x", "y"}

\* the answer to a request that the server failed to serve
ServerError == Error("500 Internal Server Error", << >>)

\* how a lookup or a request of a Bundle call ends: what is raised ("-" for
\* nothing), the requests sent, what is returned
Ended(raised, reqs, result) == [raised |-> raised, requests |-> reqs, result |-> result]

\* Bundle.cluster_prototype / Bundle.provider_prototype: _child_obj looks the
\* prototype of the kind up among the prototypes of the bundle
Bundle_prototype(kind, prototypes, reply) ==
    LET req == <<"stack." \o kind \o ".list">>
    IN  IF reply # Ok THEN Ended("ErrorMessage", req, "None")
        ELSE IF kind \notin prototypes THEN Ended("ObjectNotFound", req, "None")
        ELSE Ended("-", req, kind)

\* ClusterPrototype.cluster_create / ProviderPrototype.provider_create
Prototype_create(kind, type, name, objects, reply) ==
    LET req == <<kind \o ".create">>
    IN  IF type # kind THEN Ended("IncorrectPrototypeType", << >>, "None")
        ELSE IF reply # Ok THEN Ended("ErrorMessage", req, "None")
        ELSE IF <<kind, name>> \in objects THEN Ended("ErrorMessage", req, "None")
        ELSE Ended("-", req \o <<kind \o ".read">>, <<kind, name>>)

\* ClusterPrototype.cluster_list / ProviderPrototype.provider_list
Prototype_list(kind, objects, reply) ==
    LET req == <<kind \o ".list">>
    IN  IF reply # Ok THEN Ended("ErrorMessage", req, "None")
        ELSE Ended("-", req, {o \in objects : o[1] = kind})

\* ClusterPrototype.cluster / ProviderPrototype.provider: the lookup of the
\* one object of the kind with the name, or of the one object of the kind
\* when no name is given
Prototype_get(kind, name, objects, reply) ==
    LET req == <<kind \o ".list">>
        matches == {o \in objects : o[1] = kind /\ (name = "" \/ o[2] = name)}
    IN  IF reply # Ok THEN Ended("ErrorMessage", req, "None")
        ELSE IF matches = {} THEN Ended("ObjectNotFound", req, "None")
        ELSE IF Cardinality(matches) > 1 THEN Ended("TooManyResults", req, "None")
        ELSE Ended("-", req, CHOOSE o \in matches : TRUE)

\* the try statement around the prototype lookup of the six Bundle methods
Bundle_try_prototype_Reraise(lookup) == lookup

Bundle_try_prototype(lookup) ==
    IF lookup.raised = "ObjectNotFound"
    THEN Ended("IncorrectPrototypeType", lookup.requests, "None")
    ELSE lookup

\* the methods of Bundle that go through the prototype of a kind
BundleOps == {"create", "list", "get"}

\* Bundle.cluster_create, cluster_list, cluster, provider_create,
\* provider_list, provider: the prototype lookup, then the method of the
\* prototype
Bundle_call(method, kind, name, b, lookupReply, reply) ==
    LET prototype == Bundle_try_prototype(Bundle_prototype(kind, b.prototypes, lookupReply))
        then == CASE method = "create" ->
                       Prototype_create(kind, prototype.result, name, b.objects, reply)
                  [] method = "list" -> Prototype_list(kind, b.objects, reply)
                  [] method = "get" -> Prototype_get(kind, name, b.objects, reply)
    IN  IF prototype.raised # "-" THEN prototype
        ELSE Ended(then.raised, prototype.requests \o then.requests, then.result)

\* the objects of the server after the call
Bundle_objects(method, kind, name, b, call) ==
    IF method = "create" /\ call.raised = "-" THEN b.objects \cup {<<kind, name>>}
    ELSE b.objects

InitBundle ==
    /\ adcm_version = V_2021_03_12_16
    /\ object_type = "cluster"
    /\ status = "created"
    /\ op = "-" /\ log_failed = FALSE
    /\ pc = "idle"
    /\ timeout = 0 /\ elapsed = 0 /\ lastRead = "-"
    /\ requests = {} /\ errors = {}
    /\ filters = {} /\ after = NoOutcome
    /\ jobs = << >> /\ queue = << >> /\ qi = 0 /\ fi = 0
    /\ fetched = {} /\ answers = {} /\ emitted = {}
    /\ failedAt = << >> /\ dumpEnd = "none"
    /\ waitOutcome = NoOutcome /\ outcome = NoOutcome
    /\ calls = << >>
    /\ remote = NoEntry /\ csd = NoFrame /\ action = NoAction
    /\ records = NoRecords /\ cache = NoCache
    /\ bundle \in [prototypes : SUBSET BundleKinds,
                   objects : SUBSET (BundleKinds \X ObjectNames)]
    /\ client = NoClient

\* bundle.cluster_create(name), bundle.cluster_list(), bundle.cluster(name=...)
\* and the same of a provider
BundleCall ==
    /\ calls = << >>
    /\ \E method \in BundleOps, kind \in BundleKinds, name \in ObjectNames \cup {""},
          lookupReply \in {Ok, ServerError}, reply \in {Ok, ServerError} :
          /\ method = "create" => name # ""
          /\ method = "list" => name = ""
          /\ LET call == Bundle_call(method, kind, name, bundle, lookupReply, reply)
             IN  /\ calls' = <<[op |-> "Bundle." \o kind \o "_" \o method,
                                method |-> method, kind |-> kind, name |-> name,
                                lookupReply |-> lookupReply, before |-> bundle]
                               @@ call>>
                 /\ bundle' = [bundle EXCEPT
                                  !.objects = Bundle_objects(method, kind, name, bundle, call)]
    /\ UNCHANGED <<adcm_version, taskVars, confVars, client>>

NextBundle == BundleCall

SpecBundle == InitBundle /\ [][NextBundle]_vars


\* -------------------------------------------------------------- ADCMClient
V_2019_02_19_23 == << <<2,0,1,9>>, <<0,2>>, <<1,9>>, <<2,3>> >>
V_2019_02_20_00 == << <<2,0,1,9>>, <<0,2>>, <<2,0>>, <<0,0>> >>
V_2019_02_20_01 == << <<2,0,1,9>>, <<0,2>>, <<2,0>>, <<0,1>> >>
\* 2019.02.20.00 written without leading zeros
V_2019_2_20_0 == << <<2,0,1,9>>, <<2>>, <<2,0>>, <<0>> >>
\* a release written without leading zeros: older than 2019.02.20.00 as
\* numbers, later than it as text
V_2019_1_30_0 == << <<2,0,1,9>>, <<1>>, <<3,0>>, <<0>> >>

\* ADCMClient._MIN_VERSION
ADCMClient_MIN_VERSION == V_2019_02_20_00

\* ADCMClient._check_min_version: whether it raises ADCMApiError
ADCMClient_check_min_version_AllowEqual(ver) ==
    compare_versions(ADCMClient_MIN_VERSION, ver) > 0

ADCMClient_check_min_version(ver) ==
    compare_versions(ADCMClient_MIN_VERSION, ver) > -1

\* how auth ends: what it raises ("-" for nothing), the requests it sent and
\* the token of the api after it
Authed(raised, reqs, token) == [raised |-> raised, requests |-> reqs, token |-> token]

\* ADCMClient.auth(user, password) against a server of version ver that
\* answers the auth request with a token or with none ("None")
ADCMClient_auth_NoVersionCheck(user, password, token, ver) ==
    IF user = "None" \/ password = "None"
    THEN Authed("NoCredentionsProvided", << >>, "None")
    ELSE IF token = "None" THEN Authed("ADCMApiError", <<"token.create">>, "None")
    ELSE Authed("-", <<"token.create">>, token)

ADCMClient_auth(user, password, token, ver) ==
    IF user = "None" \/ password = "None"
    THEN Authed("NoCredentionsProvided", << >>, "None")
    ELSE IF token = "None" THEN Authed("ADCMApiError", <<"token.create">>, "None")
    ELSE IF ADCMClient_check_min_version(ver)
    THEN Authed("ADCMApiError", <<"token.create">>, token)
    ELSE Authed("-", <<"token.create">>, token)

\* the ways to construct a client: ADCMClient(api=...) with an api that has
\* a token or has none, ADCMClient(url=...)
ConstructionPaths == {"api with token", "api without token", "url"}
\* user and password of a construction
Credentials == {"None", "admin"}
\* the url of the client
ClientUrl == "http://adcm"

\* the config of the ADCM object
AdcmConfig(adcm_url, retention) ==
    Dict({<<"global", Dict({<<"adcm_url", adcm_url>>, <<"send_stats", Scalar("True")>>})>>,
          <<"job_log", Dict({<<"log_rotation", Scalar(retention)>>})>>})
AdcmUrls == {None, Scalar(ClientUrl), Scalar("http://other")}
AdcmEntries ==
    [config : {AdcmConfig(u, r) : u \in AdcmUrls, r \in {"10", "20"}},
     attr : {Dict({})}]

\* the diff guess_adcm_url hands to config_set_diff
GuessDiff(url) == Dict({<<"global", Dict({<<"adcm_url", Scalar(url)>>})>>})

\* guess_adcm_url: whether it goes on to config_set_diff, given the config
\* it read
ADCMClient_guess_adcm_url_Always(config) == TRUE

ADCMClient_guess_adcm_url(config) == Get(Get(config, "global"), "adcm_url") = None

\* the versions a server of the client specification advertises
ClientVersions ==
    {V_2019_02_19_23, V_2019_02_20_00, V_2019_02_20_01, V_2019_2_20_0, V_2019_1_30_0,
     V_2021_03_12_16}

\* the client before __init__ runs
NewClient ==
    [pc |-> "new", path |-> "-", user |-> "None", password |-> "None",
     token |-> "None", auth |-> Authed("-", << >>, "None"), requests |-> << >>,
     read |-> None, urlRead |-> None, diffRead |-> NoEntry, before |-> NoEntry,
     sent |-> None, raised |-> "-"]

InitClient ==
    /\ adcm_version \in ClientVersions
    /\ object_type = "cluster"
    /\ status = "created"
    /\ op = "-" /\ log_failed = FALSE
    /\ pc = "idle"
    /\ timeout = 0 /\ elapsed = 0 /\ lastRead = "-"
    /\ requests = {} /\ errors = {}
    /\ filters = {} /\ after = NoOutcome
    /\ jobs = << >> /\ queue = << >> /\ qi = 0 /\ fi = 0
    /\ fetched = {} /\ answers = {} /\ emitted = {}
    /\ failedAt = << >> /\ dumpEnd = "none"
    /\ waitOutcome = NoOutcome /\ outcome = NoOutcome
    /\ calls = << >>
    /\ remote \in AdcmEntries
    /\ csd = NoFrame /\ action = NoAction
    /\ records = NoRecords /\ cache = NoCache
    /\ bundle = NoBundle
    /\ client = NewClient

\* the end of __init__ after guess_adcm_url: self.adcm_version is set and
\* _check_min_version runs
Constructed(c) ==
    [c EXCEPT !.pc = "done",
              !.raised = IF ADCMClient_check_min_version(adcm_version)
                         THEN "ADCMApiError" ELSE "-"]

\* ADCMClient(api=..., url=..., user=..., password=...) up to guess_adcm_url:
\* auth unless the api given has a token
ClientInit ==
    /\ client.pc = "new"
    /\ \E path \in ConstructionPaths, user \in Credentials, password \in Credentials,
          token \in {"None", "token"} :
          LET a == IF path = "api with token" THEN Authed("-", << >>, "token")
                   ELSE ADCMClient_auth(user, password, token, adcm_version)
              c == [client EXCEPT !.path = path, !.user = user, !.password = password,
                                  !.auth = a, !.token = a.token,
                                  !.requests = a.requests]
          IN  client' = IF a.raised # "-"
                        THEN [c EXCEPT !.pc = "done", !.raised = a.raised]
                        ELSE [c EXCEPT !.pc = "guess"]
    /\ UNCHANGED <<adcm_version, taskVars, gateVars, confVars, bundle>>

\* guess_adcm_url: self.adcm().config(), and the test of global.adcm_url
GuessRead ==
    /\ client.pc = "guess"
    /\ LET c == [client EXCEPT !.requests = @ \o <<"config.current.list">>]
       IN  \/ client' =
                 LET r == [c EXCEPT !.read = remote.config,
                                    !.urlRead = Get(Get(remote.config, "global"), "adcm_url")]
                 IN  IF ADCMClient_guess_adcm_url(remote.config)
                     THEN [r EXCEPT !.pc = "diff"]
                     ELSE Constructed(r)
           \/ client' = [c EXCEPT !.pc = "done", !.raised = "ErrorMessage"]
    /\ UNCHANGED <<adcm_version, taskVars, gateVars, confVars, bundle>>

\* guess_adcm_url: config_set_diff up to the answer to its read
GuessDiffRead ==
    /\ client.pc = "diff"
    /\ LET c == [client EXCEPT !.requests = @ \o <<"config.current.list">>]
       IN  \/ client' = [c EXCEPT !.pc = "write", !.diffRead = remote]
           \/ client' = [c EXCEPT !.pc = "done", !.raised = "ErrorMessage"]
    /\ UNCHANGED <<adcm_version, taskVars, gateVars, confVars, bundle>>

\* guess_adcm_url: config_set_diff from the merge on, and the end of
\* __init__
GuessDiffWrite ==
    /\ client.pc = "write"
    /\ LET merged == BaseObject_config_set_diff(client.diffRead, remote, GuessDiff(ClientUrl))
           request == BaseObject_config_set(merged)
           c == [client EXCEPT !.requests = @ \o <<"config.history.create">>,
                               !.before = remote, !.sent = request]
       IN  \/ /\ remote' \in HistoryCreate(remote, request)
              /\ client' = Constructed(c)
           \/ /\ UNCHANGED remote
              /\ client' = [c EXCEPT !.pc = "done", !.raised = "ErrorMessage"]
    /\ UNCHANGED <<adcm_version, taskVars, gateVars, csd, action, records, cache, bundle>>

\* another client writes the config of the ADCM object
AdcmOtherWriter ==
    /\ client.pc \in {"guess", "diff", "write"}
    /\ remote' \in AdcmEntries \ {remote}
    /\ UNCHANGED <<adcm_version, taskVars, gateVars, csd, action, records, cache,
                   bundle, client>>

NextClient ==
    \/ ClientInit
    \/ GuessRead
    \/ GuessDiffRead
    \/ GuessDiffWrite
    \/ AdcmOtherWriter

SpecClient == InitClient /\ [][NextClient]_vars


\* =============================================================== claims
\* a poll of the running call failed with a transport error
PollFailed == \E e \in errors : e[1] = "status"
\* the call is over and was Task.wait or Task.try_wait
TaskCallDone == pc = "done" /\ op \in {"wait", "try_wait"}
\* the log file <<j2, f2>> comes after the log file <<j1, f1>> in the dump
Later(j1, f1, j2, f2) == j2 > j1 \/ (j2 = j1 /\ f2 > f1)
\* the log files of the jobs job_list returned
QueuedFiles == {<<queue[q], f>> : q \in 1..Len(queue), f \in 1..MaxLogs} \cap
               {p \in (1..MaxJobs) \X (1..MaxLogs) :
                   p[1] <= Len(jobs) /\ p[2] <= jobs[p[1]].nfiles}

\* C1 (as stated): whenever the status of a Task is read as "failed",
\* Task.wait returns "failed" without raising and Task.try_wait raises
\* TaskFailed.
C1_FailedAsStated ==
    (TaskCallDone /\ lastRead = "failed" /\ ~PollFailed) =>
        /\ op = "wait" => outcome = Return("failed")
        /\ op = "try_wait" => outcome = Raise("TaskFailed")

\* C1 (amended): whenever the status of a Task is read as "failed" and the
\* diagnostic collection is not run or returns without raising, Task.wait
\* returns "failed" and Task.try_wait raises TaskFailed; an error raised by
\* the diagnostic collection leaves both calls instead, and is neither
\* TaskFailed nor WaitTimeout.
C1_FailedUnlessDumpRaises ==
    (TaskCallDone /\ lastRead = "failed" /\ ~PollFailed) =>
        IF dumpEnd \in {"none", "complete"}
        THEN /\ op = "wait" => outcome = Return("failed")
             /\ op = "try_wait" => outcome = Raise("TaskFailed")
        ELSE /\ dumpEnd = "error" /\ log_failed
             /\ outcome.kind = "raise"
             /\ outcome.value \notin {"TaskFailed", "WaitTimeout"}
             /\ outcome = waitOutcome

C1_Witness ==
    /\ pc = "done" /\ op = "wait" /\ log_failed /\ lastRead = "failed"
    /\ dumpEnd = "complete" /\ fetched # {}
    /\ outcome = Return("failed")

\* C2 (as stated): a Task.wait whose polls read no terminal status up to the
\* deadline raises WaitTimeout, whatever log_failed is; a terminal status
\* read by a poll ends the wait at that poll, and wait returns it.
C2_TimeoutOrTerminal ==
    /\ pc = "poll" => lastRead \notin TerminalStatuses
    /\ (pc = "done" /\ op = "wait" /\ ~PollFailed /\ lastRead \in TerminalStatuses)
          => outcome = Return(lastRead)
    /\ (pc = "done" /\ op = "wait" /\ ~PollFailed /\ lastRead \in Statuses \ TerminalStatuses)
          => outcome = Raise("WaitTimeout")

\* C3 (as stated): a Task.wait or Job.wait that has read a terminal status
\* (success, failed or aborted) polls no more and does not end in
\* WaitTimeout.
C3_TerminalEndsWait ==
    (op \in {"wait", "job_wait"} /\ lastRead \in TerminalStatuses)
        => pc # "poll" /\ waitOutcome # Raise("WaitTimeout")

C5_LogNotFoundSkipsOneFile ==
    /\ \A a \in answers :
          /\ a[3] = "LOG_NOT_FOUND" => failedAt # <<a[1], a[2]>>
          /\ a[3] = "ok" => <<a[1], a[2], LogLevel(jobs[a[1]])>> \in emitted
    /\ dumpEnd = "complete" =>
          /\ pc = "done" /\ waitOutcome = after
          /\ fetched = QueuedFiles
          /\ \A p \in fetched :
                \/ <<p[1], p[2], "LOG_NOT_FOUND">> \in answers
                \/ <<p[1], p[2], LogLevel(jobs[p[1]])>> \in emitted

C5_Witness ==
    /\ dumpEnd = "complete"
    /\ \E j \in 1..Len(jobs) :
          /\ <<j, 1, "LOG_NOT_FOUND">> \in answers
          /\ <<j, 2, "ok">> \in answers
          /\ <<j, 2, LogLevel(jobs[j])>> \in emitted
          /\ \E k \in 1..Len(jobs) : k > j /\ <<k, 1, LogLevel(jobs[k])>> \in emitted

\* C6: a log file request answered with an error other than LOG_NOT_FOUND
\* ends _log_jobs and the call with that error: no later log file is
\* requested and nothing is logged for that file.
C6_OtherLogErrorPropagates ==
    \A a \in answers :
        a[3] \notin {"ok", "LOG_NOT_FOUND"} =>
            /\ pc = "done" /\ dumpEnd = "error"
            /\ failedAt = <<a[1], a[2]>>
            /\ waitOutcome = ErrorMessage(a[3])
            /\ outcome = ErrorMessage(a[3])
            /\ \A p \in fetched : ~Later(a[1], a[2], p[1], p[2])
            /\ \A e \in emitted : e[1] = a[1] => e[2] < a[2]

C6_Witness ==
    /\ pc = "done" /\ failedAt # << >>
    /\ outcome = ErrorMessage("SERVER_ERROR")
    /\ QueuedFiles \ fetched # {}
    /\ \E a \in answers : a[3] = "LOG_NOT_FOUND"

\* the errors _log_jobs recovers from: LOG_NOT_FOUND of a log file request
\* and an ErrorMessage of the lookup of the task's action
RecoveredErrors ==
    {<<"log", "ErrorMessage", "LOG_NOT_FOUND">>,
     <<"action", "ErrorMessage", "SERVER_ERROR">>}

\* C7 (as stated): every error a request raises, except LOG_NOT_FOUND of a
\* log file request, ends the call and is what wait raises.
C7_OnlyLogNotFoundRecovered ==
    \A e \in errors :
        e # <<"log", "ErrorMessage", "LOG_NOT_FOUND">> =>
            /\ pc = "done"
            /\ waitOutcome = [kind |-> "raise", value |-> e[2], code |-> e[3]]

\* C7 (amended): every error a request raises, except LOG_NOT_FOUND of a log
\* file request and an ErrorMessage of the action lookup of _log_jobs (after
\* which the action is read from the stack endpoint), ends the call and is
\* what wait and try_wait raise.
C7_OtherErrorsReachCaller ==
    \A e \in errors :
        e \notin RecoveredErrors =>
            /\ pc = "done"
            /\ waitOutcome = [kind |-> "raise", value |-> e[2], code |-> e[3]]
            /\ outcome = waitOutcome

C7_Witness ==
    /\ pc = "done"
    /\ RecoveredErrors \subseteq errors
    /\ <<"stack_action", "ErrorMessage", "SERVER_ERROR">> \in errors
    /\ outcome = ErrorMessage("SERVER_ERROR")

\* C8: a transport error of a status poll ends the call with that error at
\* once: no further request is sent, no job is enumerated, no diagnostic
\* collection is started, and the error is neither WaitTimeout nor TaskFailed.
C8_PollErrorPropagates ==
    PollFailed =>
        /\ pc = "done"
        /\ waitOutcome = ErrorMessage("SERVER_ERROR")
        /\ outcome = ErrorMessage("SERVER_ERROR")
        /\ requests = {"status"}
        /\ dumpEnd = "none" /\ jobs = << >> /\ fetched = {} /\ emitted = {}

C8_Witness ==
    /\ PollFailed /\ pc = "done" /\ op = "wait" /\ log_failed
    /\ lastRead = "running"
    /\ outcome = ErrorMessage("SERVER_ERROR")

\* C9: after a status read as "failed" the diagnostic collection enumerates,
\* requests and logs only jobs whose status is "failed"; after a status read
\* as "success" no job is enumerated and no log file is requested.
C9_OnlyFailedJobsLogged ==
    /\ (op \in {"wait", "try_wait"} /\ lastRead = "failed") =>
          /\ dumpEnd # "none" => log_failed
          /\ \A q \in 1..Len(queue) : jobs[queue[q]].status = "failed"
          /\ \A p \in fetched : jobs[p[1]].status = "failed"
          /\ \A e \in emitted : jobs[e[1]].status = "failed" /\ e[3] = "error"
    /\ (op \in {"wait", "try_wait"} /\ lastRead = "success" /\ pc = "done") =>
          /\ requests = {"status"}
          /\ dumpEnd = "none" /\ jobs = << >> /\ queue = << >>
          /\ fetched = {} /\ emitted = {}

C9_Witness ==
    /\ pc = "done" /\ op = "wait" /\ lastRead = "failed" /\ dumpEnd = "complete"
    /\ Len(jobs) = 2
    /\ jobs[1].status = "success" /\ jobs[1].nfiles > 0
    /\ jobs[2].status = "failed" /\ <<2, 1>> \in fetched


\* a four-component version as one number: year, month, day, hour
VersionNumber(v) ==
    ((DigitsValue(v[1]) * 100 + DigitsValue(v[2])) * 100 + DigitsValue(v[3])) * 100
        + DigitsValue(v[4])

\* the two variants and the threshold of each gated operation, as the claim
\* names them
GateTable ==
    [o \in {"Cluster.service", "Cluster.service_list", "Cluster.service_add",
            "Service.component", "Service.component_list"} |->
        CASE o = "Cluster.service" ->
                [legacy |-> "_service_old", modern |-> "service", threshold |-> 2020092513]
          [] o = "Cluster.service_list" ->
                [legacy |-> "_service_list_old", modern |-> "service_list",
                 threshold |-> 2020092513]
          [] o = "Cluster.service_add" ->
                [legacy |-> "_service_add_old", modern |-> "service_add",
                 threshold |-> 2020092513]
          [] o = "Service.component" ->
                [legacy |-> "_component_old", modern |-> "component",
                 threshold |-> 2021031216]
          [] o = "Service.component_list" ->
                [legacy |-> "_component_list_old", modern |-> "component_list",
                 threshold |-> 2021031216]]

\* C10: every call of a gated operation runs exactly one variant, the legacy
\* one when the server version is below the operation's threshold as numbers
\* and the modern one otherwise; two calls of one operation at one version
\* run the same variant whatever was called in between.
C10_GateSelectsOneVariant ==
    /\ \A i \in 1..Len(calls) :
          LET c == calls[i]
              g == GateTable[c.op]
          IN  /\ Cardinality(c.ran) = 1
              /\ c.ran = {IF VersionNumber(c.version) < g.threshold
                          THEN g.legacy ELSE g.modern}
              /\ c.how = {IF VersionNumber(c.version) < g.threshold
                          THEN "_subobject"
                          ELSE IF c.op = "Cluster.service_add" THEN "id" ELSE "_child_obj"}
    /\ \A i, j \in 1..Len(calls) :
          (calls[i].op = calls[j].op /\ calls[i].version = calls[j].version)
              => calls[i].ran = calls[j].ran

C10_Witness ==
    /\ Len(calls) = 2
    /\ calls[1].op = "Cluster.service" /\ calls[1].version = V_2020_9_1_0
    /\ calls[1].ran = {"_service_old"}
    /\ calls[2].op = "Cluster.service" /\ calls[2].version = V_2020_09_25_13
    /\ calls[2].ran = {"service"}


\* the minimum server version of each guarded operation, as a number
GuardMinimum ==
    [o \in {"ServicePrototype.service", "ServicePrototype.service_list",
            "Cluster.service_delete", "Task.action"} |->
        CASE o \in {"ServicePrototype.service", "ServicePrototype.service_list"} -> 2020092513
          [] o = "Cluster.service_delete" -> 2020051300
          [] o = "Task.action" -> 2020082700]

\* C11: a call of an operation guarded by a minimum server version, made
\* against a server older than that minimum as numbers, raises the version
\* mismatch error, which is not ObjectNotFound, and sends no request.
C11_GuardRefusesOldServer ==
    \A i \in 1..Len(calls) :
        LET c == calls[i]
        IN  VersionNumber(c.version) < GuardMinimum[c.op] =>
                /\ c.outcome = Raise("VersionMismatch")
                /\ c.outcome.value # "ObjectNotFound"
                /\ c.requests = {}

C11_Witness ==
    /\ Len(calls) = 2
    /\ calls[1].op = "Cluster.service_delete" /\ calls[1].version = V_2020_5_9_0
    /\ calls[1].outcome = Raise("VersionMismatch") /\ calls[1].requests = {}
    /\ calls[2].op = "ServicePrototype.service"
    /\ calls[2].outcome = Raise("VersionMismatch") /\ calls[2].requests = {}


\* the run requests answered with an error
RunFailed == {i \in 1..Len(calls) : calls[i].requests # << >> /\ calls[i].reply # Ok}
\* the descriptions that contain the words "has issues"
HasIssuesDescs == {<<"object", "has", "issues">>, <<"has", "issues">>}

\* C12: when the run request of Action.run is answered with an error, run
\* raises ActionHasIssues exactly if the error is titled "409 Conflict" and
\* its description contains "has issues"; any other error is raised as it
\* came; in both cases no Task is returned.
C12_ActionHasIssues ==
    \A i \in RunFailed :
        LET c == calls[i]
        IN  /\ c.raised = "ActionHasIssues"
                <=> (c.reply.title = "409 Conflict" /\ c.reply.desc \in HasIssuesDescs)
            /\ c.raised # "ActionHasIssues"
                => (c.raised = "ErrorMessage" /\ c.error = c.reply)
            /\ c.task = "None"

C12_Witness ==
    /\ Len(calls) = 1 /\ calls[1].op = "Action.run"
    /\ calls[1].reply = Error("409 Conflict", <<"object", "has", "issues">>)
    /\ calls[1].requests = <<"run.create">>
    /\ calls[1].raised = "ActionHasIssues" /\ calls[1].task = "None"


\* a config_set_diff call returned, and nobody else wrote in between
QuietWrite == csd.pc = "done" /\ csd.outcome = "return" /\ ~csd.raced

\* C13 (as stated): config_set_diff with an empty diff leaves the config
\* document and the attributes document of the object on the server as they
\* were before the call.
C13_EmptyDiffLeavesRemote ==
    (QuietWrite /\ csd.data = Dict({})) => csd.written = csd.read

\* another client wrote between the read and the write of a config_set_diff
\* call whose write the server accepted
RacedWrite == csd.pc = "done" /\ csd.raced /\ csd.reply = Ok

\* C14: when another client writes the config of the object between the read
\* and the write of a config_set_diff call, the call returns without an
\* error, its request carries the entry it read merged with the diff, and
\* the server's config is the one of that request: a key of the config read
\* that the diff does not name is written with the value read, whatever the
\* other client wrote there.
C14_LostUpdate ==
    RacedWrite =>
        /\ csd.outcome = "return"
        /\ csd.sent = BaseObject_config_set(
                          update(BaseObject_config(csd.read, is_full(csd.data)), csd.data))
        /\ csd.written.config = Get(csd.sent, "config")
        /\ (~is_full(csd.data) /\ ~is_full(csd.read.config)) =>
              \A k \in Keys(csd.read.config) \ Keys(csd.data) :
                  Get(csd.written.config, k) = Get(csd.read.config, k)

C14_Witness ==
    /\ RacedWrite /\ csd.outcome = "return"
    /\ csd.data = Dict({<<"g", Dict({<<"x", Scalar("2")>>})>>})
    /\ csd.read.config = ConfigDoc("1", "1")
    /\ csd.before.config = ConfigDoc("2", "1")
    /\ Get(csd.written.config, "a") = Scalar("1")
    /\ remote = csd.written


\* C15: after reread() the cache of a Resource holds exactly the fields and
\* values of the record the server returned: a field the server no longer
\* returns is not in the cache, and no value cached before survives unless
\* the server returned it.
C15_RereadReplacesCache ==
    cache.last = "reread" =>
        /\ cache.fields = cache.seen
        /\ \A p \in cache.prev : p[1] \notin Fields(cache.seen) => p[1] \notin Fields(cache.fields)
        /\ \A p \in cache.prev : p \notin cache.seen => p \notin cache.fields

C15_Witness ==
    /\ cache.last = "reread"
    /\ <<"description", "x">> \in cache.prev /\ <<"name", "foo">> \in cache.prev
    /\ cache.fields = {<<"name", "bar">>}

\* the entities of a lookup whose name and description are the ones asked for
Matching(c) ==
    {id \in EntityIds :
        \A f \in c.filters : \E p \in c.records[id] : p[1] = f[1] /\ p[2] = f[2]}

\* C16: a lookup by filters that expects one match returns the entity when
\* exactly one matches, raises ObjectNotFound when none matches and raises
\* TooManyResults when two or more match.
C16_SingleMatchLookup ==
    \A i \in 1..Len(calls) :
        LET c == calls[i]
            n == Cardinality(Matching(c))
        IN  /\ n = 0 => c.raised = "ObjectNotFound"
            /\ n = 1 => c.raised = "-" /\ Matching(c) = {c.id}
            /\ n >= 2 => c.raised = "TooManyResults" /\ c.id \notin EntityIds

C16_Witness ==
    /\ Len(calls) = 1 /\ calls[1].op = "lookup"
    /\ calls[1].filters = {<<"name", "foo">>}
    /\ Cardinality(Matching(calls[1])) = 2
    /\ calls[1].raised = "TooManyResults"


\* C17 (as stated): on a server at or above 2020.08.27.00 Task.action()
\* finds the owner type for every object type the server reports, builds
\* the owner and requests its action: it does not fail on the lookup of the
\* owner type by name, and ends as the request for the action ends.
C17_ActionOfEveryOwnerType ==
    \A i \in 1..Len(calls) :
        LET c == calls[i]
        IN  (c.op = "Task.action" /\ c.otype \in ServerObjectTypes
                /\ VersionNumber(c.version) >= GuardMinimum["Task.action"]) =>
                /\ c.outcome.value # "KeyError"
                /\ c.requests = {"action"}
                /\ c.outcome \in {Return("name"), Raise("ObjectNotFound"),
                                  ErrorMessage("SERVER_ERROR")}

\* wait_for_attr of the running Task.wait raised WaitTimeout
TimedOut ==
    /\ op \in {"wait", "try_wait"}
    /\ after = Raise("WaitTimeout") \/ waitOutcome = Raise("WaitTimeout")
\* job_list answered the diagnostic collection
Enumerated == dumpEnd # "none" /\ pc # "list" /\ ~(\E e \in errors : e[1] = "job_list")
\* every job of the task, in the server's order
AllJobs == [i \in 1..Len(jobs) |-> i]

\* C18: when the wait of a Task.wait with log_failed true times out, the
\* diagnostic collection is started with no filter and enumerates every job
\* of the task, and when WaitTimeout reaches the caller the collection has
\* gone through every job and requested every log file of every job; with
\* log_failed false no job is enumerated and no log file is requested,
\* however the wait ends.
C18_TimeoutDumpsAllJobs ==
    /\ (TimedOut /\ log_failed) =>
          /\ dumpEnd # "none" /\ filters = {}
          /\ Enumerated => queue = AllJobs
    /\ (TaskCallDone /\ log_failed /\ waitOutcome = Raise("WaitTimeout")) =>
          /\ dumpEnd = "complete" /\ queue = AllJobs
          /\ \A j \in 1..Len(jobs) :
                /\ <<j, 0, LogLevel(jobs[j])>> \in emitted
                /\ \A f \in 1..jobs[j].nfiles : <<j, f>> \in fetched
    /\ (op = "wait" /\ ~log_failed) =>
          /\ dumpEnd = "none" /\ jobs = << >> /\ queue = << >>
          /\ fetched = {} /\ emitted = {}
          /\ requests \subseteq {"status"}

C18_Witness ==
    /\ pc = "done" /\ op = "wait" /\ log_failed
    /\ lastRead = "running" /\ outcome = Raise("WaitTimeout")
    /\ Len(jobs) = 2
    /\ jobs[1].status = "success" /\ <<1, 1>> \in fetched /\ <<1, 1, "info">> \in emitted
    /\ jobs[2].status = "failed" /\ <<2, 1>> \in fetched /\ <<2, 1, "error">> \in emitted

\* C19: the handle a gated call returns has no top-level path (PATH is None)
\* exactly when the call ran the legacy variant, which addresses it as a
\* subobject: a Service or ServiceList exactly below 2020.09.25.13, a
\* Component or ComponentList exactly below 2021.03.12.16, as numbers.
C19_PathAgreesWithGate ==
    \A i \in 1..Len(calls) :
        LET c == calls[i]
            g == GateTable[c.op]
        IN  /\ c.PATH = "None" <=> c.ran = {g.legacy}
            /\ c.PATH = "None" <=> c.how = {"_subobject"}
            /\ c.cls \in {"Service", "ServiceList"} =>
                  (c.PATH = "None" <=> VersionNumber(c.version) < 2020092513)
            /\ c.cls \in {"Component", "ComponentList"} =>
                  (c.PATH = "None" <=> VersionNumber(c.version) < 2021031216)
            /\ c.cls \in {"Service", "ServiceList", "Component", "ComponentList"}

C19_Witness ==
    /\ Len(calls) = 2
    /\ calls[1].op = "Cluster.service_list" /\ calls[1].version = V_2020_10_01_00
    /\ calls[1].cls = "ServiceList" /\ calls[1].PATH = "service"
    /\ calls[1].ran = {"service_list"}
    /\ calls[2].op = "Service.component" /\ calls[2].version = V_2020_10_01_00
    /\ calls[2].cls = "Component" /\ calls[2].PATH = "None"
    /\ calls[2].ran = {"_component_old"}

\* C20: Action.run called with both config and config_diff raises TypeError,
\* sends no run request and returns no Task.
C20_ConfigAndConfigDiff ==
    \A i \in 1..Len(calls) :
        LET c == calls[i]
        IN  (c.op = "Action.run" /\ Has(c.args, "config") /\ Has(c.args, "config_diff")) =>
                /\ c.raised = "TypeError"
                /\ c.requests = << >> /\ c.sent = None
                /\ c.task = "None"

C20_Witness ==
    /\ Len(calls) = 1 /\ calls[1].op = "Action.run"
    /\ Has(calls[1].args, "config") /\ Has(calls[1].args, "config_diff")
    /\ Has(calls[1].args, "hc")
    /\ calls[1].reply = Ok
    /\ calls[1].raised = "TypeError" /\ calls[1].requests = << >>

\* the entries the schema declares: a name, or a name and a subname inside
\* a group
Declared(items) ==
    {<<items[i].name, items[i].subname>> :
        i \in {j \in 1..Len(items) : items[j].type # "group"}}

\* the default the schema gives to a declared entry
Default(items, e) ==
    items[CHOOSE i \in 1..Len(items) :
            items[i].type # "group" /\ <<items[i].name, items[i].subname>> = e].value

\* the value of config_diff for an entry, if it names the entry
Named(config_diff, e) ==
    IF e[2] = "" THEN Has(config_diff, e[1])
    ELSE Has(config_diff, e[1]) /\ Has(Get(config_diff, e[1]), e[2])
DiffValue(config_diff, e) ==
    IF e[2] = "" THEN Get(config_diff, e[1]) ELSE Get(Get(config_diff, e[1]), e[2])

\* the value a config document holds for an entry
Holds(config, e, value) ==
    IF e[2] = "" THEN Has(config, e[1]) /\ Get(config, e[1]) = value
    ELSE /\ Has(config, e[1]) /\ Has(Get(config, e[1]), e[2])
         /\ Get(Get(config, e[1]), e[2]) = value

\* the entries a config document holds
Entries(config) ==
    {<<k, "">> : k \in {n \in Keys(config) : ~IsMapping(Get(config, n))}} \cup
    UNION {{<<k, s>> : s \in Keys(Get(config, k))} :
              k \in {n \in Keys(config) : IsMapping(Get(config, n))}}

\* the run request of call c carries the config the schema and config_diff
\* give: the declared entries and no others, each with the value of
\* config_diff if config_diff names it and with its default otherwise
SendsMergedConfig(c, items) ==
    LET config_diff == IF Has(c.args, "config_diff") THEN Get(c.args, "config_diff")
                       ELSE Dict({})
    IN  /\ c.requests = <<"run.create">>
        /\ Has(c.sent, "config") /\ ~Has(c.sent, "config_diff")
        /\ Entries(Get(c.sent, "config")) = Declared(items)
        /\ \A e \in Declared(items) :
              Holds(Get(c.sent, "config"), e,
                    IF Named(config_diff, e) THEN DiffValue(config_diff, e)
                    ELSE Default(items, e))

\* C21: Action.run called without config sends a config built from the
\* defaults of the action's schema in which exactly the entries config_diff
\* names and the schema declares carry the value of config_diff; entries of
\* config_diff the schema does not declare are ignored and the config_diff
\* key is not sent.  A config that is given is sent as is.
C21_SendsSchemaConfigWithDiff ==
    \A i \in 1..Len(calls) :
        LET c == calls[i]
        IN  /\ (c.op = "Action.run" /\ ~Has(c.args, "config")) =>
                  SendsMergedConfig(c, action.config)
            /\ (c.op = "Action.run" /\ Has(c.args, "config")
                  /\ ~Has(c.args, "config_diff")) =>
                  /\ c.requests = <<"run.create">>
                  /\ Get(c.sent, "config") = Get(c.args, "config")

\* C21 for the calls whose config_diff gives a mapping to every group it
\* names: the config sent is the one the schema and config_diff give.  The
\* other calls end in TypeError before the run request.
C21_MappingAtEveryGroup ==
    \A i \in 1..Len(calls) :
        LET c == calls[i]
        IN  (c.op = "Action.run" /\ ~Has(c.args, "config")) =>
                IF Has(c.args, "config_diff")
                   /\ Action_run_merge_raises(action.config, Get(c.args, "config_diff"))
                THEN c.raised = "TypeError" /\ c.requests = << >>
                ELSE SendsMergedConfig(c, action.config)

C21_ScalarAtGroup ==
    /\ Len(calls) = 1 /\ calls[1].op = "Action.run"
    /\ calls[1].args = Dict({<<"config_diff", Dict({<<"g", Scalar("2")>>})>>})
    /\ Len(action.config) = 4
    /\ calls[1].raised = "TypeError" /\ calls[1].requests = << >>

C21_UndeclaredIgnored ==
    /\ Len(calls) = 1 /\ calls[1].op = "Action.run"
    /\ calls[1].args = Dict({<<"config_diff",
                               Dict({<<"b", Scalar("2")>>,
                                     <<"g", Dict({<<"z", Scalar("2")>>})>>})>>})
    /\ Len(action.config) = 4 /\ calls[1].reply = Ok
    /\ Get(calls[1].sent, "config") = Action_get_config(action.config)

\* document w is document d merged with the diff u: a key whose value is a
\* mapping in both is merged in turn, any other key of u has the value of u,
\* and every key of d that u does not name has the value of d
RECURSIVE IsMerge(_, _, _)
IsMerge(w, d, u) ==
    /\ IsMapping(w)
    /\ Keys(w) = Keys(d) \cup Keys(u)
    /\ \A key \in Keys(w) :
          IF ~Has(u, key) THEN Get(w, key) = Get(d, key)
          ELSE IF IsMapping(Get(u, key)) /\ Has(d, key) /\ IsMapping(Get(d, key))
          THEN IsMerge(Get(w, key), Get(d, key), Get(u, key))
          ELSE Get(w, key) = Get(u, key)

\* the write request of a finished config_set_diff carries what it read,
\* merged with the diff: the config document alone, or, for a diff with the
\* keys config and attr, the config and the attributes of the entry read
WritesMerge ==
    IF Has(csd.data, "config") /\ Has(csd.data, "attr")
    THEN /\ Keys(csd.sent) = {"config", "attr"}
         /\ IsMerge(Put(HistoryEntry(csd.read), "config", Get(csd.sent, "config")),
                    HistoryEntry(csd.read), Pop(csd.data, "attr"))
         /\ IF IsMapping(csd.read.attr)
            THEN IsMerge(Get(csd.sent, "attr"), csd.read.attr, Get(csd.data, "attr"))
            ELSE Get(csd.sent, "attr") = Get(csd.data, "attr")
    ELSE /\ Keys(csd.sent) = {"config"}
         /\ IsMerge(Get(csd.sent, "config"), csd.read.config, csd.data)

\* C22: config_set_diff writes the config it read merged with the diff: a
\* key that is a mapping on both sides is merged recursively, any other key
\* of the diff replaces the value, every other key is written back as read;
\* a diff with the keys config and attr makes it read the full entry and
\* write both documents.
C22_WritesReadMergedWithDiff ==
    (csd.pc = "done" /\ csd.sent # None) => WritesMerge

\* C22 for the calls that read the full entry and for the objects whose
\* config document does not itself have the keys config and attr
C22_PlainDocuments ==
    (csd.pc = "done" /\ csd.sent # None
        /\ (is_full(csd.data) \/ ~is_full(csd.read.config))) => WritesMerge

C22_DocumentWithConfigAndAttr ==
    /\ csd.pc = "done" /\ csd.reply = Ok /\ ~csd.raced
    /\ csd.data = Dict({<<"a", Scalar("2")>>})
    /\ csd.read.config = Dict({<<"config", Dict({<<"a", Scalar("1")>>})>>,
                               <<"attr", Scalar("1")>>})
    /\ csd.sent = Dict({<<"config", Dict({<<"a", Scalar("1")>>})>>,
                        <<"attr", Scalar("1")>>})

C22_FullEntryWritten ==
    /\ csd.pc = "done" /\ csd.reply = Ok
    /\ csd.read.config = ConfigDoc("1", "1")
    /\ csd.read.attr = Dict({<<"g", Dict({<<"active", Scalar("True")>>})>>})
    /\ csd.data = Dict({<<"config", Dict({<<"a", Scalar("2")>>})>>,
                        <<"attr", Dict({<<"g", Dict({<<"active", Scalar("False")>>})>>})>>})
    /\ csd.written = [config |-> ConfigDoc("2", "1"),
                      attr |-> Dict({<<"g", Dict({<<"active", Scalar("False")>>})>>})]

\* the requests of a call that create, list or look up a cluster or provider
ObjectRequests(c) ==
    {i \in 1..Len(c.requests) :
        c.requests[i] \in {c.kind \o ".create", c.kind \o ".list", c.kind \o ".read"}}

\* C23: cluster_create, cluster_list, cluster, provider_create, provider_list
\* and provider of a Bundle without a prototype of the kind raise
\* IncorrectPrototypeType and send no create or list request for the cluster
\* or provider; ObjectNotFound reaches the caller only from the lookup of the
\* cluster or provider itself, never from the lookup of the prototype.
C23_NoPrototypeIsIncorrectType ==
    \A i \in 1..Len(calls) :
        LET c == calls[i]
        IN  /\ (c.lookupReply = Ok /\ c.kind \notin c.before.prototypes) =>
                  /\ c.raised = "IncorrectPrototypeType"
                  /\ ObjectRequests(c) = {}
                  /\ bundle.objects = c.before.objects
            /\ c.raised = "ObjectNotFound" =>
                  /\ c.kind \in c.before.prototypes
                  /\ c.method = "get" /\ ObjectRequests(c) # {}

C23_Witness ==
    /\ Len(calls) = 1 /\ calls[1].op = "Bundle.provider_create"
    /\ calls[1].before.prototypes = {"cluster"}
    /\ calls[1].lookupReply = Ok
    /\ calls[1].raised = "IncorrectPrototypeType"
    /\ calls[1].requests = <<"stack.provider.list">>

\* the construction called auth
AuthRan == client.pc # "new" /\ client.path # "api with token"

\* C24: auth raises NoCredentionsProvided when user or password is None and
\* then sends no auth request, raises ADCMApiError when the api has no token
\* after the auth request, and returns normally only with a token and a
\* server newer than the minimum version.
C24_AuthOutcomes ==
    AuthRan =>
        /\ (client.user = "None" \/ client.password = "None") =>
              /\ client.auth.raised = "NoCredentionsProvided"
              /\ client.auth.requests = << >>
        /\ (client.user # "None" /\ client.password # "None" /\ client.auth.token = "None") =>
              /\ client.auth.raised = "ADCMApiError"
              /\ client.auth.requests = <<"token.create">>
        /\ client.auth.raised = "-" =>
              /\ client.auth.token # "None"
              /\ VersionNumber(adcm_version) > 2019022000

C24_Witness ==
    /\ client.path = "url" /\ client.user = "admin" /\ client.password = "admin"
    /\ adcm_version = V_2019_02_20_01
    /\ client.auth = Authed("-", <<"token.create">>, "token")
    /\ client.pc = "guess"

\* C25 as stated: a client is constructed only against a server newer than
\* 2019.02.20.00 as numbers, and against any other server the construction
\* fails with ADCMApiError on every path.
C25_OldServerIsADCMApiError ==
    client.pc = "done" =>
        IF VersionNumber(adcm_version) > 2019022000
        THEN TRUE
        ELSE client.raised = "ADCMApiError"

\* C25: a client is constructed only against a server newer than
\* 2019.02.20.00 as numbers.  Against any other server every construction
\* path fails: with ADCMApiError, unless auth was called without user or
\* password (NoCredentionsProvided) or, with an api that has a token, a
\* request of guess_adcm_url failed first (ErrorMessage).
C25_OldServerNotConstructed ==
    (client.pc = "done" /\ VersionNumber(adcm_version) <= 2019022000) =>
        /\ client.raised # "-"
        /\ client.raised = "NoCredentionsProvided" =>
              /\ client.path # "api with token"
              /\ client.user = "None" \/ client.password = "None"
        /\ client.raised = "ErrorMessage" => client.path = "api with token"
        /\ client.raised \in {"ADCMApiError", "NoCredentionsProvided", "ErrorMessage"}

C25_Witness ==
    /\ client.pc = "done" /\ client.path = "api with token"
    /\ adcm_version = V_2019_2_20_0
    /\ client.raised = "ADCMApiError"
    /\ client.requests = <<"config.current.list">>

\* the write request of guess_adcm_url, if it made one
GuessWrote == client.sent # None
\* config document w is config document d with global.adcm_url set to url
\* and nothing else changed
OnlyUrlSet(w, d, url) ==
    /\ Keys(w) = Keys(d)
    /\ \A k \in Keys(d) \ {"global"} : Get(w, k) = Get(d, k)
    /\ Keys(Get(w, "global")) = Keys(Get(d, "global"))
    /\ \A k \in Keys(Get(d, "global")) \ {"adcm_url"} :
          Get(Get(w, "global"), k) = Get(Get(d, "global"), k)
    /\ Get(Get(w, "global"), "adcm_url") = Scalar(url)

\* C26 as stated: guess_adcm_url never overwrites a configured URL: it
\* writes only when the current global.adcm_url is None.
C26_NeverOverwritesUrl ==
    GuessWrote => Get(Get(client.before.config, "global"), "adcm_url") = None

\* C26: guess_adcm_url writes the ADCM config only when the global.adcm_url
\* it read is None; the write sets global.adcm_url to the client's url and
\* keeps every other key as config_set_diff read it; when the URL read is
\* set no write request is made.  A URL that another client configures
\* after the first read is overwritten.
C26_WritesOnlyWhenUrlReadIsNone ==
    /\ GuessWrote =>
          /\ client.read # None /\ client.urlRead = None
          /\ Keys(client.sent) = {"config"}
          /\ OnlyUrlSet(Get(client.sent, "config"), client.diffRead.config, ClientUrl)
    /\ (client.read # None /\ client.urlRead # None) =>
          /\ ~GuessWrote
          /\ \A i \in 1..Len(client.requests) :
                client.requests[i] # "config.history.create"

C26_Witness ==
    /\ client.pc = "done" /\ client.raised = "-"
    /\ client.read = AdcmConfig(None, "10")
    /\ client.diffRead.config = AdcmConfig(None, "20")
    /\ Get(client.sent, "config") = AdcmConfig(Scalar(ClientUrl), "20")
    /\ remote.config = AdcmConfig(Scalar(ClientUrl), "20")

C26_UrlSetIsLeft ==
    /\ client.pc = "done" /\ client.raised = "-"
    /\ client.urlRead = Scalar("http://other")
    /\ client.requests = <<"token.create", "config.current.list">>
    /\ remote.config = AdcmConfig(Scalar("http://other"), "10")

====
